---- MODULE Spec2Model ----
(***************************************************************************)
(* Cocos2d texture-atlas unpacker (game_toolbox.tools.atlas_unpacker).     *)
(*                                                                         *)
(* Text (file names, sprite names, rect strings) is a sequence of          *)
(* one-character strings; bytes are integers 0..255; an image is a record  *)
(* [width, height, px] whose px is a sequence of rows, top row first.      *)
(***************************************************************************)
EXTENDS Integers, Sequences, FiniteSets, TLC

VARIABLES
    \* ---- extract_atlas (logic.py) ----
    pc,             \* position inside extract_atlas
    texDir,         \* names of the files that exist next to the .plist
    descriptor,     \* the frames stored in the .plist, in file order
    suffix,         \* argument suffix
    skip_existing,  \* argument skip_existing
    has_bus,        \* whether event_bus is not None
    outDirExists,   \* whether output_dir exists
    fs,             \* output_dir: file name -> content
    fs0,            \* output_dir as it was when extract_atlas was called
    texture_path,   \* local texture_path
    atlas_image,    \* local atlas_image
    frames,         \* local frames
    total,          \* local total
    idx,            \* number of loop iterations finished
    images,         \* local images
    outcome,        \* which branch each finished iteration took
    events,         \* what event_bus.emit has been called with, in order
    result,         \* the returned AtlasUnpackResult
    err,            \* the exception that left extract_atlas
    handlers,       \* event_bus._handlers: the subscriptions, in the order made
    calls,          \* the handler calls made by event_bus.emit, in order
    texFiles,       \* the files next to the .plist: file name -> content
    plistFile,      \* the .plist file: readable or not, and what it holds
    faults,         \* the saves the file system refuses: entry position -> how
    texLoad,        \* what _load_texture did
    writes,         \* the paths sprite.save has opened for writing, in order
    callNo,         \* which call of extract_atlas on this directory this is
    \* ---- output file name (logic.py:100-101), on its own ----
    nmPc, nmName, nmSuffix, nmOut,
    \* ---- decompress_ccz (_ccz.py) ----
    cczPc, cczData, cczOut,
    \* ---- _parse_rect / _parse_point (_plist.py) ----
    rectPc, rectStr, rectArity, rectOut,
    \* ---- load_plist and AtlasSpriteFrame (_plist.py) ----
    plPc,           \* position: load_plist, then the natural_w / natural_h reads
    plFile,         \* the .plist file: readable or not, and its "frames" dict
    plOut,          \* what load_plist returned or raised
    plNatural,      \* (natural_w, natural_h) read from each returned frame
    \* ---- parse_pvr / describe_pvr (_pvr.py) ----
    pvrPc,          \* position: before or after the call
    pvrData,        \* argument data
    pvrTool,        \* argument pvrtextool, "" when none was given
    pvrRun,         \* what the tool process does when it is started
    pvrOut,         \* what parse_pvr returned or raised
    pvrInfo,        \* what describe_pvr returned or raised
    pvrTmp,         \* the contents written to temporary files, in order
    pvrProcs,       \* the processes started, in order
    \* ---- probe_atlas (logic.py) ----
    prPc,           \* position: before or after the call
    prFile,         \* the .plist file
    prFs,           \* the directories and the files next to the descriptor
    prFs0,          \* prFs as it was when probe_atlas was called
    prOut,          \* what probe_atlas returned or raised
    \* ---- the packed 16-bit decoders (_pvr.py), on one word ----
    pxPc,           \* position: before or after the decoders ran
    pxWord,         \* the 16-bit word stored for the pixel
    pxOut           \* the pixel each of the three decoders gives for it

extractVars == <<pc, texDir, descriptor, suffix, skip_existing, has_bus,
                 outDirExists, fs, fs0, texture_path, atlas_image, frames,
                 total, idx, images, outcome, events, result, err, handlers, calls,
                 texFiles, plistFile, faults, texLoad, writes, callNo>>
\* what a call of extract_atlas is given and never changes
given == <<texDir, texFiles, plistFile, descriptor, suffix, skip_existing, has_bus,
           handlers, faults, fs0, callNo>>
nameVars == <<nmPc, nmName, nmSuffix, nmOut>>
cczVars == <<cczPc, cczData, cczOut>>
rectVars == <<rectPc, rectStr, rectArity, rectOut>>
plistVars == <<plPc, plFile, plOut, plNatural>>
pvrVars == <<pvrPc, pvrData, pvrTool, pvrRun, pvrOut, pvrInfo, pvrTmp, pvrProcs>>
probeVars == <<prPc, prFile, prFs, prFs0, prOut>>
pixVars == <<pxPc, pxWord, pxOut>>
vars == <<extractVars, nameVars, cczVars, rectVars, plistVars, pvrVars, probeVars, pixVars>>
notExtract == <<nameVars, cczVars, rectVars, plistVars, pvrVars, probeVars, pixVars>>
notName == <<extractVars, cczVars, rectVars, plistVars, pvrVars, probeVars, pixVars>>
notCcz == <<extractVars, nameVars, rectVars, plistVars, pvrVars, probeVars, pixVars>>
notRect == <<extractVars, nameVars, cczVars, plistVars, pvrVars, probeVars, pixVars>>
notPlist == <<extractVars, nameVars, cczVars, rectVars, pvrVars, probeVars, pixVars>>
notPvr == <<extractVars, nameVars, cczVars, rectVars, plistVars, probeVars, pixVars>>
notProbe == <<extractVars, nameVars, cczVars, rectVars, plistVars, pvrVars, pixVars>>
notPix == <<extractVars, nameVars, cczVars, rectVars, plistVars, pvrVars, probeVars>>

None == [none |-> TRUE]

(***************************************************************************)
(* Bounds of the explored inputs.                                          *)
(***************************************************************************)
MaxFrames == 3      \* entries in a descriptor
AtlasW == 2         \* decoded texture width
AtlasH == 3         \* decoded texture height
NegCoord == 1       \* frame x, y range over -NegCoord..MaxCoord
MaxCoord == 2
MaxSize == 2        \* frame w, h range over 1..MaxSize
MaxNameLen == 5     \* characters in a sprite name
MaxPayload == 3     \* bytes in a container payload
MaxMethod == 4      \* compression-method codes 0..MaxMethod
MaxToks == 5        \* numeric tokens in a rect or point string
MaxTokLen == 3      \* characters in one scanned token
MaxEntries == 2     \* entries in a .plist that load_plist reads
MaxPvrSide == 2     \* width and height of a texture given to parse_pvr
MaxHandlers == 2    \* subscriptions on the event bus

(***************************************************************************)
(* Text helpers.                                                           *)
(***************************************************************************)
\* str.lower() on the letters the model uses
Lower(c) ==
    CASE c = "P" -> "p"
      [] c = "N" -> "n"
      [] c = "G" -> "g"
      [] OTHER -> c

LowerStr(s) == [i \in 1..Len(s) |-> Lower(s[i])]

\* str.endswith
EndsWith(s, t) ==
    /\ Len(s) >= Len(t)
    /\ SubSeq(s, Len(s) - Len(t) + 1, Len(s)) = t

DotPng == <<".", "p", "n", "g">>
DotPvr == <<".", "p", "v", "r">>
DotPvrCcz == <<".", "p", "v", "r", ".", "c", "c", "z">>

(***************************************************************************)
(* logic.py                                                                *)
(***************************************************************************)
\* mutant: the plain image is tried first
TEXTURE_SUFFIXES_PngFirst == <<DotPng, DotPvr, DotPvrCcz>>

\* _TEXTURE_SUFFIXES
TEXTURE_SUFFIXES == <<DotPvrCcz, DotPvr, DotPng>>

\* Path.stem of the descriptor file
PlistStem == <<"a">>

ToolError(what, detail) == [type |-> "ToolError", what |-> what, detail |-> detail]

RECURSIVE FirstExisting(_, _, _)
\* the for loop of _find_texture from position i on
FirstExisting(dir, stem, i) ==
    IF i > Len(TEXTURE_SUFFIXES) THEN None
    ELSE IF (stem \o TEXTURE_SUFFIXES[i]) \in dir
         THEN [none |-> FALSE, path |-> stem \o TEXTURE_SUFFIXES[i]]
         ELSE FirstExisting(dir, stem, i + 1)

\* _find_texture: the candidate, or the ToolError listing what was tried
_find_texture(dir, stem) ==
    LET hit == FirstExisting(dir, stem, 1)
    IN  IF ~hit.none
        THEN [ok |-> TRUE, path |-> hit.path, err |-> None]
        ELSE [ok |-> FALSE, path |-> None,
              err |-> ToolError("No texture found",
                        [i \in 1..Len(TEXTURE_SUFFIXES) |-> stem \o TEXTURE_SUFFIXES[i]])]

\* the transparent RGBA pixel PIL pads with
Transparent == <<0, 0, 0, 0>>

\* the decoded atlas, in mode RGBA: the bands of the pixel at row-major
\* position i are 4i-3, 4i-2, 4i-1, 4i, so that a pixel names its place
AtlasImage ==
    [width |-> AtlasW, height |-> AtlasH,
     px |-> [r \in 1..AtlasH |-> [c \in 1..AtlasW |->
               LET i == (r - 1) * AtlasW + c
               IN  <<4 * i - 3, 4 * i - 2, 4 * i - 1, 4 * i>>]]]

\* Image.crop((left, upper, right, lower)): pixels outside the image are
\* transparent; coordinates are 0-based
Crop(img, left, upper, right, lower) ==
    [width |-> right - left, height |-> lower - upper,
     px |-> [r \in 1..(lower - upper) |-> [c \in 1..(right - left) |->
               LET sc == left + c
                   sr == upper + r
               IN  IF sc \in 1..img.width /\ sr \in 1..img.height
                   THEN img.px[sr][sc] ELSE Transparent]]]

\* mutant: the cropped region is not mirrored
FlipTopBottomSkipped(img) == img

\* Image.transpose(FLIP_TOP_BOTTOM)
FlipTopBottom(img) ==
    [width |-> img.width, height |-> img.height,
     px |-> [r \in 1..img.height |-> img.px[img.height + 1 - r]]]

\* mutant: the sprite is not turned back
Rotate90Skipped(img) == img

\* Image.rotate(90, expand=True): a quarter turn counter-clockwise
Rotate90(img) ==
    [width |-> img.height, height |-> img.width,
     px |-> [r \in 1..img.width |-> [c \in 1..img.height |->
               img.px[c][img.width + 1 - r]]]]

\* mutant: rect y is taken as measured from the top
_crop_sprite_TopLeft(atlas, frame) ==
    IF frame.rotated
    THEN Rotate90(FlipTopBottom(
             Crop(atlas, frame.x, frame.y, frame.x + frame.h, frame.y + frame.w)))
    ELSE FlipTopBottom(Crop(atlas, frame.x, frame.y, frame.x + frame.w, frame.y + frame.h))

\* _crop_sprite
_crop_sprite(atlas, frame) ==
    IF frame.rotated
    THEN LET packed_w == frame.h
             packed_h == frame.w
             y == atlas.height - frame.y - packed_h
         IN  Rotate90(FlipTopBottom(
                 Crop(atlas, frame.x, y, frame.x + packed_w, y + packed_h)))
    ELSE LET y == atlas.height - frame.y - frame.h
         IN  FlipTopBottom(Crop(atlas, frame.x, y, frame.x + frame.w, y + frame.h))

\* mutant: the ".png" test is case-sensitive
StemCaseSensitive(name) ==
    IF EndsWith(name, DotPng) THEN SubSeq(name, 1, Len(name) - 4) ELSE name

\* stem = name[:-4] if name.lower().endswith(".png") else name
Stem(name) ==
    IF EndsWith(LowerStr(name), DotPng) THEN SubSeq(name, 1, Len(name) - 4) ELSE name

\* out_name = stem + suffix + ".png"
OutName(name, sfx) == Stem(name) \o sfx \o DotPng

\* mutant: the skip_existing test is lost
ShouldSkipNever(skip, out_name, files) == FALSE

\* mutant: a file that holds a sprite does not count as existing
ShouldSkipUnlessSprite(skip, out_name, files) ==
    skip /\ out_name \in DOMAIN files /\ files[out_name].kind # "png"

\* if skip_existing and out_path.exists()
ShouldSkip(skip, out_name, files) == skip /\ out_name \in DOMAIN files

\* the ImageData appended for a written sprite
ImageData(path, sprite) ==
    [path |-> path, width |-> sprite.width, height |-> sprite.height, format |-> "png"]

\* mutant: the newest sprite is put first
PrependImage(imgs, img) == <<img>> \o imgs

\* images.append(...)
AppendImage(imgs, img) == Append(imgs, img)

\* mutant: the 0-based index is reported
ProgressCurrentZeroBased(i) == i

\* current=idx + 1 of a progress event, idx being enumerate's 0-based index
ProgressCurrent(i) == i + 1

ProgressEvent(i, n, kind, out_name) ==
    [event |-> "progress", tool |-> "atlas_unpacker", current |-> ProgressCurrent(i),
     total |-> n, kind |-> kind, name |-> out_name, count |-> 0]

CompletedEvent(imgs) ==
    [event |-> "completed", tool |-> "atlas_unpacker", current |-> 0, total |-> 0,
     kind |-> "Done", name |-> <<>>, count |-> Len(imgs)]

\* event_bus.emit when a bus was given
Emit(log, ev) == IF has_bus THEN Append(log, ev) ELSE log

\* what a failing handler raises
HandlerError == [type |-> "RuntimeError", what |-> "boom", detail |-> <<>>]

\* self._handlers.get(event, [])
Subscribed(hs, event) == SelectSeq(hs, LAMBDA h : h.event = event)

\* the call of one handler, as the log keeps it
Call(h, n) == [handler |-> h.id, event |-> h.event, emit |-> n]

\* mutant: the exception of a handler leaves emit
EventBus_emit_Uncaught(hs, event, n) ==
    LET list == Subscribed(hs, event)
        bad == { i \in 1..Len(list) : list[i].raises }
        last == IF bad = {} THEN Len(list)
                ELSE CHOOSE i \in bad : \A j \in bad : i <= j
    IN  [called |-> [i \in 1..last |-> Call(list[i], n)], escaped |-> bad # {}]

\* EventBus.emit, as emit call number n: every handler of the event is
\* called, in subscription order, and what it raises is logged and dropped
EventBus_emit(hs, event, n) ==
    LET list == Subscribed(hs, event)
    IN  [called |-> [i \in 1..Len(list) |-> Call(list[i], n)], escaped |-> FALSE]

\* if event_bus is not None: event_bus.emit(...)
Deliver(ev) ==
    IF has_bus THEN EventBus_emit(handlers, ev.event, Len(events) + 1)
    ELSE [called |-> <<>>, escaped |-> FALSE]

\* mutant: the descriptor is parsed before the texture is looked for
Steps_DescriptorFirst == <<"start", "parse", "find", "load", "loop">>

\* the statements of extract_atlas that come before the loop, in the order
\* they are written: mkdir, _find_texture, _load_texture, load_plist
Steps == <<"start", "find", "load", "parse", "loop">>

\* the position reached when the statement at position s has returned
StepAfter(s) == Steps[(CHOOSE i \in 1..Len(Steps) : Steps[i] = s) + 1]

\* a PNG file that holds an image
PngFile(img) == [kind |-> "png", image |-> img]

\* what open(..., "w+b") leaves of a file when nothing more is written
Truncated == [kind |-> "partial"]

\* mutant: a file that is there is never written again
SaveKeepFirst(files, out_name, sprite) ==
    [p \in DOMAIN files \cup {out_name} |->
        IF p \in DOMAIN files THEN files[p] ELSE PngFile(sprite)]

\* sprite.save(str(out_path), "PNG") that succeeds: the path holds the sprite
Save(files, out_name, sprite) ==
    [p \in DOMAIN files \cup {out_name} |->
        IF p = out_name THEN PngFile(sprite) ELSE files[p]]

\* the exception of a save the file system refuses
SaveError(kind) == [type |-> "OSError", what |-> kind, detail |-> <<>>]

\* what a failed sprite.save can leave in the output directory.  "open": the
\* file could not be opened and nothing is touched.  "write": the file was
\* opened with "w+b", which creates or empties it, and the encoder or the
\* write failed; PIL removes at most a file it has created itself, and
\* only in its later releases, so a file that was there before stays
\* emptied and a new file stays or goes.  extract_atlas cleans nothing up.
SaveFailures(files, out_name, kind) ==
    IF kind = "open" THEN { files }
    ELSE { [p \in DOMAIN files \cup {out_name} |->
               IF p = out_name THEN Truncated ELSE files[p]] }
             \cup (IF out_name \in DOMAIN files THEN {} ELSE { files })

\* Image.crop raises ValueError for a box whose right edge is left of its
\* left edge or whose lower edge is above its upper edge
CropRaises(frame) == frame.w < 0 \/ frame.h < 0

CropError == [type |-> "ValueError", what |-> "Coordinate 'right' is less than 'left'",
              detail |-> <<>>]

\* output_dir.mkdir(parents=True, exist_ok=True)
Mkdir ==
    /\ pc = "start"
    /\ outDirExists' = TRUE
    /\ pc' = StepAfter("start")
    /\ UNCHANGED <<notExtract, given, fs, texture_path, atlas_image, texLoad, frames,
                   total, idx, images, outcome, events, result, err, calls, writes>>

\* texture_path = _find_texture(plist_path)
FindTexture ==
    /\ pc = "find"
    /\ LET r == _find_texture(texDir, PlistStem)
       IN  IF r.ok
           THEN /\ texture_path' = r.path
                /\ pc' = StepAfter("find")
                /\ err' = err
           ELSE /\ texture_path' = texture_path
                /\ pc' = "failed"
                /\ err' = r.err
    /\ UNCHANGED <<notExtract, given, outDirExists, fs, atlas_image, texLoad, frames,
                   total, idx, images, outcome, events, result, calls, writes>>

\* one iteration that takes the skip_existing branch; an exception that
\* leaves emit leaves extract_atlas
SkipEntry ==
    /\ pc = "loop"
    /\ idx < total
    /\ LET out_name == OutName(frames[idx + 1].name, suffix)
           ev == ProgressEvent(idx, total, "Skipped", out_name)
           em == Deliver(ev)
       IN  /\ ShouldSkip(skip_existing, out_name, fs)
           /\ events' = Emit(events, ev)
           /\ calls' = calls \o em.called
           /\ IF em.escaped
              THEN /\ pc' = "failed" /\ err' = HandlerError
                   /\ outcome' = outcome /\ idx' = idx
              ELSE /\ pc' = pc /\ err' = err
                   /\ outcome' = Append(outcome, "skipped") /\ idx' = idx + 1
    /\ UNCHANGED <<notExtract, given, outDirExists, fs, texture_path, atlas_image,
                   texLoad, frames, total, images, result, writes>>

\* one iteration that crops, saves, records and reports the sprite
ExtractEntry ==
    /\ pc = "loop"
    /\ idx < total
    /\ LET frame == frames[idx + 1]
           out_name == OutName(frame.name, suffix)
           sprite == _crop_sprite(atlas_image, frame)
           ev == ProgressEvent(idx, total, "Extracted", out_name)
           em == Deliver(ev)
       IN  /\ ~ShouldSkip(skip_existing, out_name, fs)
           /\ ~CropRaises(frame)
           /\ (idx + 1) \notin DOMAIN faults
           /\ fs' = Save(fs, out_name, sprite)
           /\ writes' = Append(writes, out_name)
           /\ images' = AppendImage(images, ImageData(out_name, sprite))
           /\ events' = Emit(events, ev)
           /\ calls' = calls \o em.called
           /\ IF em.escaped
              THEN /\ pc' = "failed" /\ err' = HandlerError
                   /\ outcome' = outcome /\ idx' = idx
              ELSE /\ pc' = pc /\ err' = err
                   /\ outcome' = Append(outcome, "written") /\ idx' = idx + 1
    /\ UNCHANGED <<notExtract, given, outDirExists, texture_path, atlas_image, texLoad,
                   frames, total, result>>

\* one iteration in which _crop_sprite or sprite.save raises: the exception
\* leaves extract_atlas, nothing is recorded or reported for the entry
FailEntry ==
    /\ pc = "loop"
    /\ idx < total
    /\ LET frame == frames[idx + 1]
           out_name == OutName(frame.name, suffix)
       IN  /\ ~ShouldSkip(skip_existing, out_name, fs)
           /\ IF CropRaises(frame)
              THEN /\ err' = CropError
                   /\ fs' = fs
                   /\ writes' = writes
              ELSE /\ (idx + 1) \in DOMAIN faults
                   /\ err' = SaveError(faults[idx + 1])
                   /\ fs' \in SaveFailures(fs, out_name, faults[idx + 1])
                   /\ writes' = IF faults[idx + 1] = "open" THEN writes
                                ELSE Append(writes, out_name)
    /\ pc' = "failed"
    /\ UNCHANGED <<notExtract, given, outDirExists, texture_path, atlas_image, texLoad,
                   frames, total, idx, images, outcome, events, result, calls>>

\* after the loop: the completed event and the return
Complete ==
    /\ pc = "loop"
    /\ idx = total
    /\ LET ev == CompletedEvent(images)
           em == Deliver(ev)
       IN  /\ events' = Emit(events, ev)
           /\ calls' = calls \o em.called
           /\ IF em.escaped
              THEN /\ pc' = "failed" /\ err' = HandlerError /\ result' = result
              ELSE /\ pc' = "done" /\ err' = err
                   /\ result' = [images |-> images, count |-> Len(images)]
    /\ UNCHANGED <<notExtract, given, outDirExists, fs, texture_path, atlas_image,
                   texLoad, frames, total, idx, images, outcome, writes>>

(***************************************************************************)
(* Inputs of extract_atlas.                                                *)
(***************************************************************************)
NamePool == { <<"h">>, <<"h", ".", "p", "n", "g">>, <<"s", ".", "P", "N", "G">>,
              <<"t", ".", "j", "p", "g">> }
Suffixes == { <<>>, <<"@", "2", "x">> }

Frame(name, x, y, w, h, rotated) ==
    [name |-> name, x |-> x, y |-> y, w |-> w, h |-> h, rotated |-> rotated]

\* frames that lie inside the atlas: a 1x1 sprite and a rotated 2x1 sprite
InsideFrames ==
    { Frame(n, 0, 0, 1, 1, FALSE) : n \in NamePool }
        \cup { Frame(n, 0, 0, 2, 1, TRUE) : n \in NamePool }

\* any placement within the coordinate bounds
AnyFrames ==
    { Frame(<<"h">>, x, y, w, h, rot) :
        x \in (0 - NegCoord)..MaxCoord, y \in (0 - NegCoord)..MaxCoord,
        w \in 1..MaxSize, h \in 1..MaxSize, rot \in BOOLEAN }

DistinctNames(d) == \A i, j \in 1..Len(d) : i # j => d[i].name # d[j].name

\* a plist dict holds each name once
Descriptors(pool, n) ==
    UNION { { d \in [1..k -> pool] : DistinctNames(d) } : k \in 0..n }

OutNames(d, sfx) == { OutName(d[i].name, sfx) : i \in 1..Len(d) }

PreExisting == [kind |-> "bytes"]

OnlyPng == { PlistStem \o DotPng }
Candidates == { PlistStem \o TEXTURE_SUFFIXES[i] : i \in 1..Len(TEXTURE_SUFFIXES) }

Input(d, sfx, skip, bus, pre, dir, dirExists) ==
    [descriptor |-> d, suffix |-> sfx, skip_existing |-> skip, has_bus |-> bus,
     pre |-> pre, texDir |-> dir, outDirExists |-> dirExists, handlers |-> <<>>]

\* many entries, colliding names, pre-existing output files
FileInputs ==
    UNION { { Input(d, <<>>, skip, TRUE, pre, OnlyPng, TRUE) :
                skip \in BOOLEAN, pre \in SUBSET OutNames(d, <<>>) } :
            d \in Descriptors(InsideFrames, MaxFrames) }

\* at most one entry, every combination of the options
OptionInputs ==
    UNION { UNION { { Input(d, sfx, skip, bus, pre, OnlyPng, dx) :
                        skip \in BOOLEAN, bus \in BOOLEAN, dx \in BOOLEAN,
                        pre \in SUBSET OutNames(d, sfx) } :
                    sfx \in Suffixes } :
            d \in Descriptors(InsideFrames, 1) }

\* one entry, placed anywhere
GeomInputs ==
    { Input(<<f>>, <<>>, FALSE, TRUE, {}, OnlyPng, FALSE) : f \in AnyFrames }

\* any set of texture files next to the descriptor
TextureInputs ==
    { Input(<<Frame(<<"h">>, 0, 0, 1, 1, FALSE)>>, <<>>, FALSE, TRUE, {}, dir, FALSE) :
        dir \in SUBSET (Candidates \cup { <<"b">> \o DotPng }) }

\* a handler of the bus: the event it was subscribed to and whether it raises
Handler(id, event, raises) == [id |-> id, event |-> event, raises |-> raises]

\* up to MaxHandlers subscriptions, numbered in the order they were made
HandlerLists ==
    UNION { { [i \in 1..k |-> Handler(i, es[i], rs[i])] :
                es \in [1..k -> {"progress", "completed"}], rs \in [1..k -> BOOLEAN] } :
            k \in 0..MaxHandlers }

BusFrames == { Frame(n, 0, 0, 1, 1, FALSE) : n \in { <<"h">>, <<"h", ".", "p", "n", "g">>, <<"t", ".", "j", "p", "g">> } }

\* up to two entries, with subscribers on the bus
BusInputs ==
    UNION { { [Input(d, <<>>, skip, TRUE, pre, OnlyPng, TRUE) EXCEPT !.handlers = hs] :
                skip \in BOOLEAN, pre \in SUBSET OutNames(d, <<>>), hs \in HandlerLists } :
            d \in Descriptors(BusFrames, 2) }

NameIdle == /\ nmPc = "idle" /\ nmName = <<>> /\ nmSuffix = <<>> /\ nmOut = <<>>
CczIdle == /\ cczPc = "idle" /\ cczData = <<>> /\ cczOut = None
RectIdle == /\ rectPc = "idle" /\ rectStr = <<>> /\ rectArity = 0 /\ rectOut = None
PlistIdle == /\ plPc = "idle" /\ plFile = None /\ plOut = None /\ plNatural = <<>>

ExtractIdle ==
    /\ pc = "idle" /\ texDir = {} /\ descriptor = <<>> /\ suffix = <<>>
    /\ skip_existing = FALSE /\ has_bus = FALSE /\ outDirExists = FALSE
    /\ fs = <<>> /\ fs0 = <<>> /\ texture_path = None /\ atlas_image = None
    /\ frames = <<>> /\ total = 0 /\ idx = 0 /\ images = <<>> /\ outcome = <<>>
    /\ events = <<>> /\ result = None /\ err = None
    /\ handlers = <<>> /\ calls = <<>>
    /\ texFiles = <<>> /\ plistFile = None /\ faults = <<>> /\ texLoad = None
    /\ writes = <<>> /\ callNo = 0

\* every group of variables but g holds its idle value
IdleExcept(g) ==
    /\ g = "extract" \/ ExtractIdle
    /\ g = "name" \/ NameIdle
    /\ g = "ccz" \/ CczIdle
    /\ g = "rect" \/ RectIdle
    /\ g = "plist" \/ PlistIdle
    /\ g = "pvr" \/ (/\ pvrPc = "idle" /\ pvrData = <<>> /\ pvrTool = ""
                     /\ pvrRun = None /\ pvrOut = None /\ pvrInfo = None
                     /\ pvrTmp = <<>> /\ pvrProcs = <<>>)
    /\ g = "probe" \/ (/\ prPc = "idle" /\ prFile = None /\ prFs = None
                       /\ prFs0 = None /\ prOut = None)
    /\ g = "pix" \/ (/\ pxPc = "idle" /\ pxWord = 0 /\ pxOut = None)

(***************************************************************************)
(* Properties of extract_atlas.                                            *)
(***************************************************************************)
N == Len(descriptor)

PackedW(f) == IF f.rotated THEN f.h ELSE f.w
PackedH(f) == IF f.rotated THEN f.w ELSE f.h
CropLeft(f) == f.x
CropTop(f) == AtlasH - f.y - PackedH(f)

\* the crop rectangle lies entirely inside the decoded texture
InsideTexture(f) ==
    /\ CropLeft(f) >= 0 /\ CropTop(f) >= 0
    /\ CropLeft(f) + PackedW(f) <= AtlasW
    /\ CropTop(f) + PackedH(f) <= AtlasH

Written == { k \in 1..Len(outcome) : outcome[k] = "written" }
Skipped == { k \in 1..Len(outcome) : outcome[k] = "skipped" }

\* C1: an entry whose crop rectangle is not entirely inside the decoded
\* texture makes extract fail with the format error (ToolError) that names
\* the rectangle, and no sprite is produced for it.
C1_OutsideRectFails ==
    \A k \in 1..idx :
        (outcome[k] # "skipped" /\ ~InsideTexture(descriptor[k])) =>
            /\ pc = "failed"
            /\ err.type = "ToolError"
            /\ OutName(descriptor[k].name, suffix) \notin DOMAIN fs

\* C2: with an event sink, after k entries exactly the progress
\* notifications 1..k have been emitted, each with current = its position
\* and total = N; a completed call has emitted N progress notifications and
\* then one completion notification carrying the number of written entries.
C2_ProgressThenCompleted ==
    (has_bus /\ pc \in {"loop", "done"}) =>
        /\ \A k \in 1..idx :
              /\ events[k].event = "progress"
              /\ events[k].current = k
              /\ events[k].total = N
        /\ pc = "loop" => Len(events) = idx
        /\ pc = "done" =>
              /\ idx = N
              /\ Len(events) = N + 1
              /\ events[N + 1].event = "completed"
              /\ events[N + 1].count = Cardinality(Written)

C2_Witness ==
    /\ pc = "done" /\ has_bus /\ N >= 2
    /\ Written # {} /\ Skipped # {}
    /\ Len(events) = N + 1

\* C3: with skip_existing, an entry whose output path exists when it is
\* reached is passed over: nothing is written or recorded for it, it still
\* advances the progress count (total stays N), and no file that exists is
\* ever changed by a later step.
C3_SkipLeavesFile ==
    [][ /\ (skip_existing /\ pc = "loop" /\ idx < N
              /\ OutName(descriptor[idx + 1].name, suffix) \in DOMAIN fs) =>
                /\ fs' = fs
                /\ images' = images
                /\ idx' = idx + 1
                /\ total' = N
                /\ has_bus => /\ Len(events') = Len(events) + 1
                              /\ events'[Len(events')].event = "progress"
                              /\ events'[Len(events')].total = N
        /\ skip_existing => \A p \in DOMAIN fs : p \in DOMAIN fs' /\ fs'[p] = fs[p]
        /\ (skip_existing /\ pc' = "done") =>
                /\ \A p \in DOMAIN fs0 : fs'[p] = fs0[p]
                /\ result'.count = N - Cardinality(Skipped)
      ]_vars

C3_Witness ==
    /\ pc = "done" /\ skip_existing /\ N = 3
    /\ Cardinality(Skipped) = 1
    /\ DOMAIN fs0 # {}
    /\ result.count = 2

RECURSIVE WrittenPaths(_)
\* the output paths of the written entries among the first k, in entry order
WrittenPaths(k) ==
    IF k = 0 THEN <<>>
    ELSE IF outcome[k] = "written"
         THEN Append(WrittenPaths(k - 1), OutName(descriptor[k].name, suffix))
         ELSE WrittenPaths(k - 1)

\* C4: the result lists the written sprites in descriptor order, the
\* skipped entries removed, and count is the length of that list, N minus
\* the number of skipped entries.
C4_ResultInOrder ==
    pc = "done" =>
        /\ [i \in 1..Len(result.images) |-> result.images[i].path] = WrittenPaths(N)
        /\ result.count = Len(result.images)
        /\ result.count = N - Cardinality(Skipped)

C4_Witness ==
    /\ pc = "done" /\ N = 3
    /\ Cardinality(Written) = 2 /\ Cardinality(Skipped) = 1
    /\ result.images[1].path # result.images[2].path

\* C6: the resolver returns the first existing one of <stem>.pvr.ccz,
\* <stem>.pvr, <stem>.png, in that order, and when none exists fails with
\* the format error (ToolError) that names all three.
C6_TexturePriority ==
    pc \notin {"start", "find"} =>
        IF (PlistStem \o DotPvrCcz) \in texDir THEN texture_path = PlistStem \o DotPvrCcz
        ELSE IF (PlistStem \o DotPvr) \in texDir THEN texture_path = PlistStem \o DotPvr
        ELSE IF (PlistStem \o DotPng) \in texDir THEN texture_path = PlistStem \o DotPng
        ELSE /\ pc = "failed"
             /\ err.type = "ToolError"
             /\ err.what = "No texture found"
             /\ { err.detail[i] : i \in DOMAIN err.detail } = Candidates
             /\ Len(err.detail) = 3

C6_Witness ==
    /\ pc = "load"
    /\ Cardinality(texDir \cap Candidates) = 3
    /\ texture_path = PlistStem \o DotPvrCcz


(***************************************************************************)
(* The output file name of one entry (logic.py:100-101), over every name.  *)
(***************************************************************************)
NameAlphabet == {"a", ".", "p", "n", "g", "G"}
AllNames == UNION { [1..k -> NameAlphabet] : k \in 0..MaxNameLen }

InitName ==
    /\ nmPc = "start"
    /\ nmName \in AllNames
    /\ nmSuffix \in Suffixes
    /\ nmOut = <<>>
    /\ IdleExcept("name")

\* stem = ...; out_name = stem + suffix + ".png"
ComputeOutName ==
    /\ nmPc = "start"
    /\ nmOut' = OutName(nmName, nmSuffix)
    /\ nmPc' = "done"
    /\ UNCHANGED <<notName, nmName, nmSuffix>>

NextName == ComputeOutName

SpecName == InitName /\ [][NextName]_vars

\* position of the last "." of s, 0 when there is none
LastDot(s) ==
    LET dots == { i \in 1..Len(s) : s[i] = "." }
    IN  IF dots = {} THEN 0 ELSE CHOOSE i \in dots : \A j \in dots : j <= i

\* the name without its file extension (a leading dot starts no extension)
WithoutExtension(s) ==
    IF LastDot(s) > 1 /\ (\E j \in 1..(LastDot(s) - 1) : s[j] # ".")
    THEN SubSeq(s, 1, LastDot(s) - 1) ELSE s

\* C5 as claimed: the output file name is the sprite name with its file
\* extension stripped, then the suffix, then the format extension.
C5_AnyExtensionStripped ==
    nmPc = "done" => nmOut = WithoutExtension(nmName) \o nmSuffix \o DotPng

\* the name ends in ".png", in any letter case
HasPngEnding(s) ==
    /\ Len(s) >= 4
    /\ s[Len(s) - 3] = "."
    /\ s[Len(s) - 2] \in {"p", "P"}
    /\ s[Len(s) - 1] \in {"n", "N"}
    /\ s[Len(s)] \in {"g", "G"}

\* C5 amended: the output file name is the sprite name without a trailing
\* ".png" (any letter case) when it has one and the whole name otherwise,
\* then the suffix, then ".png"; an empty suffix gives <name>.png.
C5_PngEndingStripped ==
    nmPc = "done" =>
        /\ nmOut = (IF HasPngEnding(nmName) THEN SubSeq(nmName, 1, Len(nmName) - 4)
                    ELSE nmName) \o nmSuffix \o DotPng
        /\ EndsWith(nmOut, nmSuffix \o DotPng)

C5_Witness ==
    /\ nmPc = "done"
    /\ nmName = <<"a", ".", "p", "n", "G">>
    /\ nmSuffix = <<"@", "2", "x">>
    /\ nmOut = <<"a", "@", "2", "x", ".", "p", "n", "g">>


(***************************************************************************)
(* _ccz.py                                                                 *)
(***************************************************************************)
\* b"CCZ!"
_MAGIC == <<67, 67, 90, 33>>
_HEADER_SIZE == 16
_COMP_ZLIB == 0
_COMP_BZIP2 == 1
_COMP_GZIP == 2
_COMP_NONE == 3

RECURSIVE RunLength(_, _)
\* how many copies of b start the byte string p
RunLength(p, b) ==
    IF p = <<>> \/ Head(p) # b THEN 0 ELSE 1 + RunLength(Tail(p), b)

RECURSIVE Pack(_)
\* the compressed body the three codecs share: (count, byte) pairs
Pack(p) ==
    IF p = <<>> THEN <<>>
    ELSE LET n == RunLength(p, Head(p))
         IN  <<n, Head(p)>> \o Pack(SubSeq(p, n + 1, Len(p)))

RECURSIVE Unpack(_)
Unpack(z) ==
    IF z = <<>> THEN <<>>
    ELSE [i \in 1..z[1] |-> z[2]] \o Unpack(SubSeq(z, 3, Len(z)))

WellPacked(z) ==
    /\ Len(z) % 2 = 0
    /\ \A i \in 1..Len(z) : i % 2 = 1 => z[i] >= 1

\* the stream signatures of the three libraries: 0x78, "BZ", 0x1f 0x8b
ZlibSig == <<120>>
Bz2Sig == <<66, 90>>
GzipSig == <<31, 139>>

LibResult(sig, z, codec, error) ==
    IF Len(z) >= Len(sig) /\ SubSeq(z, 1, Len(sig)) = sig
          /\ WellPacked(SubSeq(z, Len(sig) + 1, Len(z)))
    THEN [status |-> "ok", cause |-> "", value |-> Unpack(SubSeq(z, Len(sig) + 1, Len(z))),
          codec |-> codec]
    ELSE [status |-> error, cause |-> "corrupt stream", value |-> None, codec |-> codec]

\* zlib.compress / zlib.decompress
zlib_compress(p) == ZlibSig \o Pack(p)
zlib_decompress(z) == LibResult(ZlibSig, z, "zlib", "zlib.error")

\* bz2.compress / bz2.decompress
bz2_compress(p) == Bz2Sig \o Pack(p)
bz2_decompress(z) == LibResult(Bz2Sig, z, "bz2", "OSError")

\* gzip.compress / gzip.GzipFile(fileobj=...).read()
gzip_compress(p) == GzipSig \o Pack(p)
gzip_read(z) == LibResult(GzipSig, z, "gzip", "BadGzipFile")

CczError(cause) ==
    [status |-> "ToolError", cause |-> cause, value |-> None, codec |-> "none"]

\* mutant: the method code is read two bytes too far, from the version field
CompTypeFromVersion(data) == data[7] * 256 + data[8]

\* mutant: only the low byte of the method code is read
CompTypeLowByte(data) == data[6]

\* comp_type = struct.unpack_from(">H", data, 4)[0]
CompType(data) == data[5] * 256 + data[6]

\* mutant: the payload is taken one byte early
CczPayloadEarly(data) == SubSeq(data, _HEADER_SIZE, Len(data))

\* payload = data[_HEADER_SIZE:]
CczPayload(data) == SubSeq(data, _HEADER_SIZE + 1, Len(data))

decompress_ccz(data) ==
    IF Len(data) < _HEADER_SIZE THEN CczError("Data too short to be a CCZ file")
    ELSE IF SubSeq(data, 1, 4) # _MAGIC THEN CczError("Not a CCZ file")
    ELSE LET comp_type == CompType(data)
             payload == CczPayload(data)
         IN  IF comp_type = _COMP_ZLIB THEN zlib_decompress(payload)
             ELSE IF comp_type = _COMP_BZIP2 THEN bz2_decompress(payload)
             ELSE IF comp_type = _COMP_GZIP THEN gzip_read(payload)
             ELSE IF comp_type = _COMP_NONE
                  THEN [status |-> "ok", cause |-> "", value |-> payload, codec |-> "none"]
             ELSE CczError("Unknown CCZ compression type")

\* mutant: the magic is never found
is_ccz_Never(data) == FALSE

\* is_ccz
is_ccz(data) == SubSeq(data, 1, IF Len(data) < 4 THEN Len(data) ELSE 4) = _MAGIC

\* struct.pack(">H", v) and struct.pack(">I", v)
U16(v) == <<v \div 256, v % 256>>
U32(v) == <<v \div 16777216, (v \div 65536) % 256, (v \div 256) % 256, v % 256>>

\* the 16-byte header followed by the body
Container(magic, method, version, reserved, declared, body) ==
    magic \o U16(method) \o U16(version) \o U32(reserved) \o U32(declared) \o body

(***************************************************************************)
(* Inputs of decompress_ccz.                                               *)
(***************************************************************************)
PayloadBytes == {0, 255}
Payloads == UNION { [1..k -> PayloadBytes] : k \in 0..MaxPayload }
Magics == { _MAGIC, <<67, 67, 90, 63>>, <<99, 67, 90, 33>> }
Methods == (0..MaxMethod) \cup {256, 259}
Versions == {0, 2}
Reserveds == {0, 1}
Declareds == 0..(MaxPayload + 1)

Compress(method, p) ==
    CASE method = 0 -> zlib_compress(p)
      [] method = 1 -> bz2_compress(p)
      [] method = 2 -> gzip_compress(p)
      [] OTHER -> p

Bodies == Payloads \cup { Compress(m, p) : m \in 0..2, p \in Payloads }

CczInputs ==
    { Container(mg, m, v, r, d, b) :
        mg \in Magics, m \in Methods, v \in Versions, r \in Reserveds,
        d \in Declareds, b \in Bodies }
    \cup { SubSeq(Container(mg, 3, 2, 0, 0, <<>>), 1, n) : mg \in Magics, n \in 0..15 }

InitCcz ==
    /\ cczPc = "start"
    /\ cczData \in CczInputs
    /\ cczOut = None
    /\ IdleExcept("ccz")

\* one call of decompress_ccz
Decompress ==
    /\ cczPc = "start"
    /\ cczOut' = decompress_ccz(cczData)
    /\ cczPc' = "done"
    /\ UNCHANGED <<notCcz, cczData>>

NextCcz == Decompress

SpecCcz == InitCcz /\ [][NextCcz]_vars

\* the method code as the header states it
MethodField(data) == data[5] * 256 + data[6]

NothingInflated(out) == out.codec = "none" /\ out.value = None

\* C7: decompress fails with the format error (ToolError) for an input
\* shorter than 16 bytes, else for a wrong magic, else for a method code
\* outside 0..3, each with its own message, and inflates and returns nothing.
C7_HeaderChecksInOrder ==
    cczPc = "done" =>
        IF Len(cczData) < 16
        THEN /\ cczOut.status = "ToolError"
             /\ cczOut.cause = "Data too short to be a CCZ file"
             /\ NothingInflated(cczOut)
        ELSE IF SubSeq(cczData, 1, 4) # <<67, 67, 90, 33>>
        THEN /\ cczOut.status = "ToolError"
             /\ cczOut.cause = "Not a CCZ file"
             /\ NothingInflated(cczOut)
        ELSE IF MethodField(cczData) \notin {0, 1, 2, 3}
        THEN /\ cczOut.status = "ToolError"
             /\ cczOut.cause = "Unknown CCZ compression type"
             /\ NothingInflated(cczOut)
        ELSE TRUE

C7_Witness ==
    /\ cczPc = "done"
    /\ Len(cczData) > 16
    /\ SubSeq(cczData, 1, 4) = <<67, 67, 90, 33>>
    /\ MethodField(cczData) = 256
    /\ cczOut.cause = "Unknown CCZ compression type"

\* the container that wraps payload p with the given method
Wrap(p, method) == Container(_MAGIC, method, 2, 0, Len(p), Compress(method, p))

\* C8: for every payload and each method 0..3, decompress of the container
\* that wraps the payload with that method returns the payload.
C8_RoundTrip ==
    cczPc = "done" =>
        \A p \in Payloads : \A m \in 0..3 :
            cczData = Wrap(p, m) => (cczOut.status = "ok" /\ cczOut.value = p)

C8_Witness ==
    /\ cczPc = "done"
    /\ cczData = Wrap(<<0, 0, 255>>, 1)
    /\ cczOut.value = <<0, 0, 255>>
    /\ cczOut.codec = "bz2"

\* the container with its version, reserved and declared-length fields replaced
WithIgnoredFields(data, v, r, d) ==
    SubSeq(data, 1, 6) \o U16(v) \o U32(r) \o U32(d) \o SubSeq(data, 17, Len(data))

\* C9: the outcome of decompress is the same for every content of the
\* version, reserved and declared-length fields (bytes 6..15); a declared
\* length that differs from the size of the output is no error.
C9_IgnoredFields ==
    (cczPc = "done" /\ Len(cczData) >= 16) =>
        \A v \in Versions \cup {513} : \A r \in Reserveds \cup {67305985} :
            \A d \in Declareds \cup {16909060} :
                decompress_ccz(WithIgnoredFields(cczData, v, r, d)) = cczOut

C9_Witness ==
    /\ cczPc = "done"
    /\ cczOut.status = "ok"
    /\ cczOut.codec = "zlib"
    /\ Len(cczOut.value) = 2
    /\ SubSeq(cczData, 13, 16) = U32(3)
    /\ SubSeq(cczData, 7, 8) = U16(0)


(***************************************************************************)
(* _plist.py: _parse_rect and _parse_point                                 *)
(***************************************************************************)
Digits == {"0", "1", "2", "3", "4", "5", "6", "7", "8", "9"}

DigitVal(c) ==
    CASE c = "0" -> 0 [] c = "1" -> 1 [] c = "2" -> 2 [] c = "3" -> 3 [] c = "4" -> 4
      [] c = "5" -> 5 [] c = "6" -> 6 [] c = "7" -> 7 [] c = "8" -> 8 [] c = "9" -> 9

\* the character class [-\d.]
ScanChars == Digits \cup {"-", "."}

RECURSIVE FindAll(_, _, _)
\* re.findall(r"[-\d.]+", s): the maximal runs of scan characters; cur is
\* the run being read, i the next position
FindAll(s, i, cur) ==
    IF i > Len(s) THEN (IF cur = <<>> THEN <<>> ELSE <<cur>>)
    ELSE IF s[i] \in ScanChars THEN FindAll(s, i + 1, Append(cur, s[i]))
    ELSE (IF cur = <<>> THEN <<>> ELSE <<cur>>) \o FindAll(s, i + 1, <<>>)

RECURSIVE DigitsValue(_)
DigitsValue(ds) ==
    IF ds = <<>> THEN 0 ELSE 10 * DigitsValue(SubSeq(ds, 1, Len(ds) - 1)) + DigitVal(ds[Len(ds)])

\* float(token) for a token of scan characters: an optional "-", then
\* digits with at most one "." and at least one digit; anything else raises
\* ValueError
Float(tok) ==
    LET neg == tok # <<>> /\ tok[1] = "-"
        body == IF neg THEN Tail(tok) ELSE tok
        dots == { i \in 1..Len(body) : body[i] = "." }
        wellFormed == /\ \A i \in 1..Len(body) : body[i] \in Digits \cup {"."}
                      /\ Cardinality(dots) <= 1
                      /\ \E i \in 1..Len(body) : body[i] \in Digits
        dot == IF dots = {} THEN Len(body) + 1 ELSE CHOOSE i \in dots : TRUE
    IN  IF wellFormed
        THEN [ok |-> TRUE, neg |-> neg, whole |-> DigitsValue(SubSeq(body, 1, dot - 1)),
              frac |-> SubSeq(body, dot + 1, Len(body))]
        ELSE [ok |-> FALSE]

\* mutant: the fraction is rounded to the nearest integer
IntRounded(f) ==
    LET up == f.frac # <<>> /\ DigitVal(f.frac[1]) >= 5
        mag == f.whole + (IF up THEN 1 ELSE 0)
    IN  IF f.neg THEN 0 - mag ELSE mag

\* int(x) of a float: the fraction is dropped
IntOf(f) == IF f.neg THEN 0 - f.whole ELSE f.whole

\* the body shared by _parse_rect (n = 4) and _parse_point (n = 2)
ParseNumbers(s, n, what) ==
    LET toks == FindAll(s, 1, <<>>)
        nums == [i \in 1..Len(toks) |-> Float(toks[i])]
    IN  IF \E i \in 1..Len(nums) : ~nums[i].ok
        THEN [status |-> "ValueError", what |-> "could not convert string to float",
              value |-> None]
        ELSE IF Len(nums) = n
        THEN [status |-> "ok", what |-> "", value |-> [i \in 1..n |-> IntOf(nums[i])]]
        ELSE [status |-> "ToolError", what |-> what, value |-> None]

_parse_rect(s) == ParseNumbers(s, 4, "Cannot parse rect string")

_parse_point(s) == ParseNumbers(s, 2, "Cannot parse point string")

(***************************************************************************)
(* Inputs of _parse_rect and _parse_point.                                 *)
(***************************************************************************)
RECURSIVE Join(_, _)
\* sep.join(parts)
Join(parts, sep) ==
    IF parts = <<>> THEN <<>>
    ELSE IF Len(parts) = 1 THEN parts[1]
    ELSE parts[1] \o sep \o Join(Tail(parts), sep)

\* {t1,t2,...}
Flat(toks) == <<"{">> \o Join(toks, <<",">>) \o <<"}">>

\* t1 t2 ...
Spaced(toks) == Join(toks, <<" ">>)

RECURSIVE Pairs(_)
Pairs(toks) ==
    IF Len(toks) <= 2 THEN (IF toks = <<>> THEN <<>> ELSE <<Flat(toks)>>)
    ELSE <<Flat(SubSeq(toks, 1, 2))>> \o Pairs(SubSeq(toks, 3, Len(toks)))

\* {{t1,t2},{t3,t4}}
Nested(toks) == <<"{">> \o Join(Pairs(toks), <<",">>) \o <<"}">>

Notations(toks) == { Nested(toks), Flat(toks), Spaced(toks) }

\* well-formed numbers, with the integer each truncates to
NumberPool ==
    { [text |-> <<"7">>, trunc |-> 7],
      [text |-> <<"-", "3">>, trunc |-> 0 - 3],
      [text |-> <<"1", ".", "9">>, trunc |-> 1],
      [text |-> <<"-", "1", ".", "9">>, trunc |-> 0 - 1] }

TokenChars == {"-", ".", "1", "9"}
AnyTokens == UNION { [1..k -> TokenChars] : k \in 1..MaxTokLen }

Texts(ns) == [i \in 1..Len(ns) |-> ns[i].text]
Truncs(ns) == [i \in 1..Len(ns) |-> ns[i].trunc]

\* up to MaxToks well-formed numbers in each notation
NumberLists == UNION { [1..k -> NumberPool] : k \in 0..MaxToks }

\* one arbitrary token, alone or followed by one to three numbers
TokenLists ==
    { <<t>> \o Texts(ns) : t \in AnyTokens, ns \in UNION { [1..k -> {[text |-> <<"7">>, trunc |-> 7]}] : k \in 0..3 } }

RectStrings ==
    UNION { Notations(Texts(ns)) : ns \in NumberLists }
        \cup UNION { Notations(ts) : ts \in TokenLists }
        \cup { <<>>, <<"{", "a", ",", "b", "}">> }

InitRect ==
    /\ rectPc = "start"
    /\ rectStr \in RectStrings
    /\ rectArity \in {2, 4}
    /\ rectOut = None
    /\ IdleExcept("rect")

\* one call of _parse_rect
ParseRect ==
    /\ rectPc = "start" /\ rectArity = 4
    /\ rectOut' = _parse_rect(rectStr)
    /\ rectPc' = "done"
    /\ UNCHANGED <<notRect, rectStr, rectArity>>

\* one call of _parse_point
ParsePoint ==
    /\ rectPc = "start" /\ rectArity = 2
    /\ rectOut' = _parse_point(rectStr)
    /\ rectPc' = "done"
    /\ UNCHANGED <<notRect, rectStr, rectArity>>

NextRect == ParseRect \/ ParsePoint

SpecRect == InitRect /\ [][NextRect]_vars

\* the number of runs of scan characters in s
RECURSIVE TokenCount(_, _, _)
TokenCount(s, i, inRun) ==
    IF i > Len(s) THEN 0
    ELSE IF s[i] \in Digits \cup {"-", "."}
         THEN (IF inRun THEN 0 ELSE 1) + TokenCount(s, i + 1, TRUE)
         ELSE TokenCount(s, i + 1, FALSE)

\* C10: the three notations written with the same four numbers all give
\* the tuple of the numbers truncated toward zero; a string that yields a
\* number of tokens other than 4 (2 for a point) fails with the format
\* error (ToolError).
C10_RectParsing ==
    rectPc = "done" =>
        /\ \A ns \in [1..rectArity -> NumberPool] :
              rectStr \in Notations(Texts(ns)) =>
                  (rectOut.status = "ok" /\ rectOut.value = Truncs(ns))
        /\ TokenCount(rectStr, 1, FALSE) # rectArity => rectOut.status = "ToolError"

(***************************************************************************)
(* _plist.py: load_plist and AtlasSpriteFrame                              *)
(***************************************************************************)
\* a dict without keys
EmptyDict == [k \in {} |-> TRUE]

DigitChar(d) ==
    CASE d = 0 -> "0" [] d = 1 -> "1" [] d = 2 -> "2" [] d = 3 -> "3" [] d = 4 -> "4"
      [] d = 5 -> "5" [] d = 6 -> "6" [] d = 7 -> "7" [] d = 8 -> "8" [] d = 9 -> "9"

RECURSIVE NatStr(_)
NatStr(n) == IF n < 10 THEN <<DigitChar(n)>> ELSE Append(NatStr(n \div 10), DigitChar(n % 10))

\* str(n) of an int, as an f-string formats it
Str(n) == IF n < 0 THEN <<"-">> \o NatStr(0 - n) ELSE NatStr(n)

\* info.get(k1) or info.get(k2) or default
GetOr(info, k1, k2, default) ==
    IF k1 \in DOMAIN info /\ info[k1] # <<>> THEN info[k1]
    ELSE IF k2 \in DOMAIN info /\ info[k2] # <<>> THEN info[k2]
    ELSE default

\* bool(info.get("rotated", False))
RotatedOf(info) == IF "rotated" \in DOMAIN info THEN info["rotated"] ELSE FALSE

\* mutant: the default source size is written height first
DefaultSourceSizeSwapped(w, h) == <<"{">> \o Str(h) \o <<",">> \o Str(w) \o <<"}">>

\* f"{{{w},{h}}}"
DefaultSourceSize(w, h) == <<"{">> \o Str(w) \o <<",">> \o Str(h) \o <<"}">>

\* "{0,0}"
DefaultOffset == <<"{", "0", ",", "0", "}">>

AtlasSpriteFrame(name, x, y, w, h, rotated, source_w, source_h, offset_x, offset_y) ==
    [name |-> name, x |-> x, y |-> y, w |-> w, h |-> h, rotated |-> rotated,
     source_w |-> source_w, source_h |-> source_h,
     offset_x |-> offset_x, offset_y |-> offset_y]

Raised(r) == [status |-> r.status, what |-> r.what, frames |-> <<>>]

\* the body of the for loop of load_plist: the frame, or what was raised
LoadEntry(name, info) ==
    LET rotated == RotatedOf(info)
        rect == _parse_rect(GetOr(info, "frame", "textureRect", <<>>))
    IN  IF rect.status # "ok" THEN Raised(rect)
        ELSE
        LET x == rect.value[1]
            y == rect.value[2]
            w == rect.value[3]
            h == rect.value[4]
            src == _parse_point(GetOr(info, "sourceSize", "spriteSourceSize",
                                      DefaultSourceSize(w, h)))
        IN  IF src.status # "ok" THEN Raised(src)
            ELSE
            LET off == _parse_point(GetOr(info, "offset", "spriteOffset", DefaultOffset))
            IN  IF off.status # "ok" THEN Raised(off)
                ELSE [status |-> "ok", what |-> "",
                      frames |-> <<AtlasSpriteFrame(name, x, y, w, h, rotated,
                                       src.value[1], src.value[2],
                                       off.value[1], off.value[2])>>]

RECURSIVE LoadEntries(_, _, _)
\* the for loop of load_plist from entry i on, acc holding the frames so far
LoadEntries(raw, i, acc) ==
    IF i > Len(raw) THEN [status |-> "ok", what |-> "", frames |-> acc]
    ELSE LET e == LoadEntry(raw[i].name, raw[i].info)
         IN  IF e.status # "ok" THEN e
             ELSE LoadEntries(raw, i + 1, acc \o e.frames)

\* load_plist: file.readable says whether plistlib.load succeeds, file.data is
\* the loaded dict, whose "frames" value lists the entries in file order
load_plist(file) ==
    IF ~file.readable
    THEN [status |-> "ToolError", what |-> "Failed to read plist file", frames |-> <<>>]
    ELSE LoadEntries(IF "frames" \in DOMAIN file.data THEN file.data["frames"] ELSE <<>>,
                     1, <<>>)

\* mutant: the width is returned whatever rotated says
natural_w_Unswapped(frame) == frame.w

\* AtlasSpriteFrame.natural_w
natural_w(frame) == IF frame.rotated THEN frame.h ELSE frame.w

\* AtlasSpriteFrame.natural_h
natural_h(frame) == IF frame.rotated THEN frame.w ELSE frame.h

(***************************************************************************)
(* Inputs of load_plist.                                                   *)
(***************************************************************************)
\* rect strings with the integers they hold
RectPool ==
    { [text |-> Nested(<<<<"1">>, <<"0">>, <<"2">>, <<"1">>>>), value |-> <<1, 0, 2, 1>>],
      [text |-> Flat(<<<<"0">>, <<"2">>, <<"1">>, <<"3">>>>), value |-> <<0, 2, 1, 3>>] }

\* a malformed token, two numbers where four are needed, no number at all
BadRects ==
    { Nested(<<<<"-">>, <<"0">>, <<"2">>, <<"1">>>>), Flat(<<<<"1">>, <<"2">>>>),
      <<"{", "a", "}">> }

\* point strings with the integers they hold
PointPool ==
    { [text |-> Flat(<<<<"5">>, <<"6">>>>), value |-> <<5, 6>>],
      [text |-> Flat(<<<<"2">>, <<"-", "1">>>>), value |-> <<2, 0 - 1>>] }

BadPoints == { Flat(<<<<".">>, <<"1">>>>), Flat(<<<<"1">>>>) }

TextsOf(pool) == { p.text : p \in pool }

\* the ways an entry can carry a value under a key and its older spelling
KeyChoices(k1, k2, good, bad) ==
    {EmptyDict}
        \cup { k1 :> t : t \in good \cup bad \cup {<<>>} }
        \cup { k2 :> t : t \in good }
        \cup { (k1 :> <<>>) @@ (k2 :> t) : t \in good }
        \cup { (k1 :> t.a) @@ (k2 :> t.b) :
                 t \in { u \in [a : good, b : good] : u.a # u.b } }

RotatedChoices == { EmptyDict, "rotated" :> TRUE, "rotated" :> FALSE }

\* every combination of the fields of one entry
Infos ==
    { (a @@ b) @@ (c @@ d) :
        a \in KeyChoices("frame", "textureRect", TextsOf(RectPool), BadRects),
        b \in RotatedChoices,
        c \in KeyChoices("sourceSize", "spriteSourceSize", TextsOf(PointPool), BadPoints),
        d \in KeyChoices("offset", "spriteOffset", TextsOf(PointPool), BadPoints) }

\* an entry with only its rect, a complete rotated entry, and an entry whose
\* offset cannot be parsed
FewInfos ==
    { "frame" :> Flat(<<<<"0">>, <<"2">>, <<"1">>, <<"3">>>>),
      ("textureRect" :> Nested(<<<<"1">>, <<"0">>, <<"2">>, <<"1">>>>))
          @@ ("rotated" :> TRUE)
          @@ ("spriteSourceSize" :> Flat(<<<<"5">>, <<"6">>>>))
          @@ ("spriteOffset" :> Flat(<<<<"2">>, <<"-", "1">>>>)),
      ("frame" :> Flat(<<<<"0">>, <<"2">>, <<"1">>, <<"3">>>>))
          @@ ("offset" :> Flat(<<<<"-", "-">>, <<"1">>>>)) }

Entry(name, info) == [name |-> name, info |-> info]

PlistFile(readable, data) == [readable |-> readable, data |-> data]

\* a file that is no property list, a property list without "frames", one
\* entry of any content, and up to MaxEntries entries of a few kinds
PlistFiles ==
    { PlistFile(FALSE, EmptyDict), PlistFile(TRUE, EmptyDict),
      PlistFile(TRUE, "metadata" :> EmptyDict) }
        \cup { PlistFile(TRUE, "frames" :> <<Entry(<<"h">>, info)>>) : info \in Infos }
        \cup UNION { { PlistFile(TRUE, "frames" :> [i \in 1..k |-> Entry(ns[i], is[i])]) :
                         ns \in { n \in [1..k -> NamePool] :
                                    \A i, j \in 1..k : i # j => n[i] # n[j] },
                         is \in [1..k -> FewInfos] } :
                     k \in 0..MaxEntries }

InitPlist ==
    /\ plPc = "start"
    /\ plFile \in PlistFiles
    /\ plOut = None
    /\ plNatural = <<>>
    /\ IdleExcept("plist")

\* one call of load_plist
ParsePlist ==
    /\ plPc = "start"
    /\ plOut' = load_plist(plFile)
    /\ plPc' = IF plOut'.status = "ok" THEN "loaded" ELSE "failed"
    /\ UNCHANGED <<notPlist, plFile, plNatural>>

\* natural_w and natural_h are read from every returned frame
ReadNatural ==
    /\ plPc = "loaded"
    /\ plNatural' = [i \in 1..Len(plOut.frames) |->
                        <<natural_w(plOut.frames[i]), natural_h(plOut.frames[i])>>]
    /\ plPc' = "measured"
    /\ UNCHANGED <<notPlist, plFile, plOut>>

NextPlist == ParsePlist \/ ReadNatural

SpecPlist == InitPlist /\ [][NextPlist]_vars

(***************************************************************************)
(* Properties of load_plist.                                               *)
(***************************************************************************)
\* the entries of the file, in file order
RawEntries == IF "frames" \in DOMAIN plFile.data THEN plFile.data["frames"] ELSE <<>>

\* the key is missing, or holds the empty string, which `or` passes over
Missing(info, k) == k \notin DOMAIN info \/ info[k] = <<>>

\* the text an entry gives under a key or its older spelling
Given(info, k1, k2) == IF ~Missing(info, k1) THEN info[k1] ELSE info[k2]

\* C11: load_plist either returns the frames or raises the format error
\* (ToolError): an unreadable file, a rect or point string of unknown shape,
\* a scanned token that is no well-formed number, and a missing rect key are
\* never reported as any other kind of failure.
C11_ParseFailsWithFormatError ==
    plPc # "start" => plOut.status \in {"ok", "ToolError"}

\* C12: in every parsed entry rotated is false when the field is absent and
\* the given boolean otherwise; the offset is (0,0) and the source size is
\* the entry's own (w, h) when their keys are absent; a rect, source size or
\* offset that is given is the one the frame holds.
C12_EntryDefaults ==
    plPc \in {"loaded", "measured"} =>
        \A i \in 1..Len(RawEntries) :
            LET info == RawEntries[i].info
                f == plOut.frames[i]
            IN  /\ f.name = RawEntries[i].name
                /\ "rotated" \notin DOMAIN info => f.rotated = FALSE
                /\ "rotated" \in DOMAIN info => f.rotated = info["rotated"]
                /\ (Missing(info, "offset") /\ Missing(info, "spriteOffset")) =>
                       (f.offset_x = 0 /\ f.offset_y = 0)
                /\ (Missing(info, "sourceSize") /\ Missing(info, "spriteSourceSize")) =>
                       (f.source_w = f.w /\ f.source_h = f.h)
                /\ \A r \in RectPool :
                       Given(info, "frame", "textureRect") = r.text =>
                           <<f.x, f.y, f.w, f.h>> = r.value
                /\ \A p \in PointPool :
                       /\ (~(Missing(info, "sourceSize") /\ Missing(info, "spriteSourceSize"))
                             /\ Given(info, "sourceSize", "spriteSourceSize") = p.text) =>
                               <<f.source_w, f.source_h>> = p.value
                       /\ (~(Missing(info, "offset") /\ Missing(info, "spriteOffset"))
                             /\ Given(info, "offset", "spriteOffset") = p.text) =>
                               <<f.offset_x, f.offset_y>> = p.value

\* a file whose first entry has only its rect, with w # h, and whose second
\* entry gives every field
C12_Witness ==
    /\ plPc = "loaded"
    /\ Len(plOut.frames) = 2
    /\ DOMAIN RawEntries[1].info = {"frame"}
    /\ plOut.frames[1].w # plOut.frames[1].h
    /\ plOut.frames[1].source_w = plOut.frames[1].w
    /\ "rotated" \in DOMAIN RawEntries[2].info
    /\ plOut.frames[2].rotated
    /\ plOut.frames[2].offset_y < 0

_PVR2_TAG == 559044176

\* 0x03525650
_PVR3_MAGIC == 55727696

\* the length parse_pvr asks for, and the size of both headers
PvrHeaderSize == 52

FmtRow(bpp, mode, raw_mode) == [bpp |-> bpp, mode |-> mode, raw_mode |-> raw_mode]

\* _PVR2_FMT; raw_mode "None" marks the formats decoded by a helper
_PVR2_FMT ==
    (16 :> FmtRow(2, "RGBA", "None")) @@ (17 :> FmtRow(2, "RGBA", "None"))
        @@ (18 :> FmtRow(4, "RGBA", "RGBA")) @@ (19 :> FmtRow(2, "RGB", "BGR;16"))
        @@ (20 :> FmtRow(2, "RGB", "None")) @@ (21 :> FmtRow(3, "RGB", "RGB"))
        @@ (22 :> FmtRow(1, "L", "L")) @@ (23 :> FmtRow(2, "LA", "LA"))
        @@ (24 :> FmtRow(0, "", "None")) @@ (25 :> FmtRow(0, "", "None"))
        @@ (26 :> FmtRow(4, "RGBA", "BGRA")) @@ (27 :> FmtRow(1, "L", "L"))

\* struct.unpack_from can read n bytes at offset off
CanRead(data, off, n) == off + n <= Len(data)

\* struct.unpack_from("<I", data, off)[0]
ReadU32(data, off) ==
    data[off + 1] + 256 * data[off + 2] + 65536 * data[off + 3] + 16777216 * data[off + 4]

\* struct.unpack_from("<H", raw, off)[0]
ReadU16(raw, off) == raw[off + 1] + 256 * raw[off + 2]

\* (word >> shift) & (2^bits - 1)
Bits(word, shift, bits) == (word \div (2 ^ shift)) % (2 ^ bits)

\* data[start:]
SliceFrom(data, start) == SubSeq(data, start + 1, Len(data))

\* data[:n]
SliceTo(data, n) == SubSeq(data, 1, IF n < Len(data) THEN n ELSE Len(data))

PvrError(type, what, detail) == [type |-> type, what |-> what, detail |-> detail]

\* what a call produced: the image or the exception, the parser that was
\* entered, the temporary files written and the processes started
PvrReturn(parser, img, wrote, ran) ==
    [status |-> "ok", err |-> None, image |-> img, parser |-> parser,
     wrote |-> wrote, ran |-> ran]

PvrRaise(parser, e, wrote, ran) ==
    [status |-> e.type, err |-> e, image |-> None, parser |-> parser,
     wrote |-> wrote, ran |-> ran]

\* the bytes one pixel takes in a PIL raw mode
RawSize(raw_mode) ==
    CASE raw_mode \in {"RGBA", "BGRA"} -> 4
      [] raw_mode = "RGB" -> 3
      [] raw_mode \in {"BGR;16", "LA"} -> 2
      [] raw_mode = "L" -> 1

\* the unpacker of a PIL raw mode: the bands of the pixel stored in bytes b
UnpackRaw(raw_mode, b) ==
    CASE raw_mode \in {"RGBA", "RGB", "LA", "L"} -> b
      [] raw_mode = "BGRA" -> <<b[3], b[2], b[1], b[4]>>
      [] raw_mode = "BGR;16" ->
            LET word == b[1] + 256 * b[2]
            IN  <<(Bits(word, 11, 5) * 255) \div 31, (Bits(word, 5, 6) * 255) \div 63,
                  (Bits(word, 0, 5) * 255) \div 31>>

\* Image.convert("RGBA") of one pixel
ConvertRGBA(mode, p) ==
    CASE mode = "RGBA" -> p
      [] mode = "RGB" -> <<p[1], p[2], p[3], 255>>
      [] mode = "LA" -> <<p[1], p[1], p[1], p[2]>>
      [] mode = "L" -> <<p[1], p[1], p[1], 255>>

\* the image whose pixel i (row-major, from 0) is at[i]
ImageOf(w, h, at) ==
    [width |-> w, height |-> h,
     px |-> [r \in 1..h |-> [c \in 1..w |-> at[(r - 1) * w + (c - 1)]]]]

\* Image.frombytes(mode, (w, h), data, "raw", raw_mode): ValueError when data
\* is too short
frombytes(mode, w, h, data, raw_mode) ==
    LET n == RawSize(raw_mode)
    IN  IF Len(data) < w * h * n
        THEN [ok |-> FALSE, image |-> None,
              err |-> PvrError("ValueError", "not enough image data", <<>>)]
        ELSE [ok |-> TRUE, err |-> None,
              image |-> ImageOf(w, h,
                            [i \in 0..(w * h - 1) |->
                                UnpackRaw(raw_mode, SubSeq(data, i * n + 1, i * n + n))])]

\* img.convert("RGBA")
ToRGBA(mode, img) ==
    [width |-> img.width, height |-> img.height,
     px |-> [r \in 1..img.height |-> [c \in 1..img.width |->
               ConvertRGBA(mode, img.px[r][c])]]]

\* the pixel a packed 16-bit word decodes to
Pixel4444(word) ==
    <<Bits(word, 12, 4) * 17, Bits(word, 8, 4) * 17, Bits(word, 4, 4) * 17,
      Bits(word, 0, 4) * 17>>

Pixel5551(word) ==
    <<Bits(word, 11, 5) * 8, Bits(word, 6, 5) * 8, Bits(word, 1, 5) * 8,
      Bits(word, 0, 1) * 255>>

\* the RGB pixel, with the alpha convert("RGBA") adds
Pixel555(word) ==
    <<Bits(word, 10, 5) * 8, Bits(word, 5, 5) * 8, Bits(word, 0, 5) * 8, 255>>

\* the word loop of the three packed 16-bit decoders: pixels is the decoded
\* pixel of every word; struct.error when raw ends before word w * h
Packed16(raw, w, h, pixels) ==
    IF Len(raw) < w * h * 2
    THEN [ok |-> FALSE, image |-> None,
          err |-> PvrError("struct.error", "unpack_from requires a buffer", <<>>)]
    ELSE [ok |-> TRUE, image |-> ImageOf(w, h, pixels), err |-> None]

\* the 16-bit words of raw that the loop reads
Words16(raw, w, h) ==
    [i \in 0..(w * h - 1) |-> IF i * 2 + 2 <= Len(raw) THEN ReadU16(raw, i * 2) ELSE 0]

_decode_rgba4444(raw, w, h) ==
    Packed16(raw, w, h, [i \in 0..(w * h - 1) |-> Pixel4444(Words16(raw, w, h)[i])])

_decode_rgba5551(raw, w, h) ==
    Packed16(raw, w, h, [i \in 0..(w * h - 1) |-> Pixel5551(Words16(raw, w, h)[i])])

_decode_rgb555(raw, w, h) ==
    Packed16(raw, w, h, [i \in 0..(w * h - 1) |-> Pixel555(Words16(raw, w, h)[i])])

\* the encoding a fallback error names: f"PVRv2 fmt={fmt:#04x}" or
\* f"PVRv3 pf_hi={pf_hi}"
Label(container, field, value) ==
    [container |-> container, field |-> field, value |-> value]

\* the image PVRTexToolCLI leaves in texture.png when it succeeds
ToolImage == [width |-> 1, height |-> 1, px |-> <<<<<<1, 2, 3, 4>>>>>>]

\* mutant: only the pixel data is written for the tool
ToolInputPayloadOnly(pvr_data) == SliceFrom(pvr_data, PvrHeaderSize)

\* in_path.write_bytes(pvr_data)
ToolInput(pvr_data) == pvr_data

\* _pvrtc_fallback: tool is "" when no tool was given; run is what the tool
\* process does when started
_pvrtc_fallback(parser, pvr_data, tool, label, run) ==
    IF tool = ""
    THEN PvrRaise(parser,
             PvrError("ToolError", "PVRTC-compressed texture cannot be decoded in pure Python",
                      [label |-> label, stderr |-> <<>>]),
             <<>>, <<>>)
    ELSE LET wrote == <<ToolInput(pvr_data)>>
             ran == <<[tool |-> tool, input |-> wrote[1]]>>
         IN  IF run.exit # 0
             THEN PvrRaise(parser,
                      PvrError("ToolError", "PVRTexToolCLI failed",
                               [label |-> label, stderr |-> run.stderr]),
                      wrote, ran)
             ELSE IF ~run.png
             THEN PvrRaise(parser,
                      PvrError("FileNotFoundError", "texture.png", <<>>), wrote, ran)
             ELSE PvrReturn(parser, ToolImage, wrote, ran)

\* what a decoder produced, as the outcome of the call
Decoded(parser, d, mode) ==
    IF d.ok THEN PvrReturn(parser, ToRGBA(mode, d.image), <<>>, <<>>)
    ELSE PvrRaise(parser, d.err, <<>>, <<>>)

_parse_v2(data, tool, run) ==
    LET height == ReadU32(data, 4)
        width == ReadU32(data, 8)
        flags == ReadU32(data, 16)
        fmt == flags % 256
    IN  IF fmt \notin DOMAIN _PVR2_FMT
        THEN PvrRaise("v2", PvrError("ToolError", "Unknown PVRv2 pixel format", fmt),
                      <<>>, <<>>)
        ELSE
        LET bpp == _PVR2_FMT[fmt].bpp
            mode == _PVR2_FMT[fmt].mode
            raw_mode == _PVR2_FMT[fmt].raw_mode
            pixel_data == SliceFrom(data, 52)
        IN  IF bpp = 0
            THEN _pvrtc_fallback("v2", data, tool, Label("PVRv2", "fmt", fmt), run)
            ELSE IF fmt = 16 THEN Decoded("v2", _decode_rgba4444(pixel_data, width, height), "RGBA")
            ELSE IF fmt = 17 THEN Decoded("v2", _decode_rgba5551(pixel_data, width, height), "RGBA")
            ELSE IF fmt = 20 THEN Decoded("v2", _decode_rgb555(pixel_data, width, height), "RGBA")
            ELSE Decoded("v2",
                     frombytes(mode, width, height,
                               SliceTo(pixel_data, width * height * bpp), raw_mode),
                     mode)

\* the non-zero bytes of pf_lo, low byte first, as character codes
_v3_channels(pf_lo) ==
    LET byte(i) == Bits(pf_lo, i * 8, 8)
        keep(i) == IF byte(i) # 0 THEN <<byte(i)>> ELSE <<>>
    IN  keep(0) \o keep(1) \o keep(2) \o keep(3)

\* str.lower() of a character code
LowerCode(c) == IF c \in 65..90 THEN c + 32 ELSE c

\* "".join(b.lower() for b in img.getbands())
StandardBands(mode) ==
    CASE mode = "RGBA" -> <<114, 103, 98, 97>>
      [] mode = "RGB" -> <<114, 103, 98>>
      [] mode = "LA" -> <<108, 97>>
      [] mode = "L" -> <<108>>

\* the position of character c in s
IndexIn(s, c) == CHOOSE i \in 1..Len(s) : s[i] = c

\* _reorder_v3: Image.merge raises ValueError unless it is given one band
\* for each band of the mode
_reorder_v3(img, mode, channels) ==
    LET standard == StandardBands(mode)
        order == [i \in 1..Len(channels) |-> LowerCode(channels[i])]
        known == SelectSeq(order, LAMBDA c : \E i \in 1..Len(standard) : standard[i] = c)
        reordered == [k \in 1..Len(known) |-> IndexIn(standard, known[k])]
    IN  IF order = standard THEN [ok |-> TRUE, image |-> img, err |-> None]
        ELSE IF Len(reordered) # Len(standard)
        THEN [ok |-> FALSE, image |-> None,
              err |-> PvrError("ValueError", "wrong number of bands", <<>>)]
        ELSE [ok |-> TRUE, err |-> None,
              image |-> [width |-> img.width, height |-> img.height,
                         px |-> [r \in 1..img.height |-> [c \in 1..img.width |->
                                   [k \in 1..Len(reordered) |->
                                       img.px[r][c][reordered[k]]]]]]]

_parse_v3(data, tool, run) ==
    LET pf_lo == ReadU32(data, 8)
        pf_hi == ReadU32(data, 12)
        height == ReadU32(data, 24)
        width == ReadU32(data, 28)
        meta_size == ReadU32(data, 48)
        header_size == 52 + meta_size
        pixel_data == SliceFrom(data, header_size)
    IN  IF pf_lo = 0
        THEN _pvrtc_fallback("v3", data, tool, Label("PVRv3", "pf_hi", pf_hi), run)
        ELSE
        LET channels == _v3_channels(pf_lo)
            bits == [i \in 1..4 |-> Bits(pf_hi, (i - 1) * 8, 8)]
            n == Len(channels)
            mode == CASE n = 4 -> "RGBA" [] n = 3 -> "RGB" [] n = 2 -> "LA" [] n = 1 -> "L"
        IN  IF \A i \in 1..n : bits[i] = 8
            THEN LET img == frombytes(mode, width, height,
                                      SliceTo(pixel_data, width * height * n), mode)
                 IN  IF ~img.ok THEN Decoded("v3", img, mode)
                     ELSE Decoded("v3", _reorder_v3(img.image, mode, channels), mode)
            ELSE PvrRaise("v3",
                     PvrError("ToolError", "Unsupported PVRv3 pixel format", <<pf_lo, pf_hi>>),
                     <<>>, <<>>)

\* mutant: the V3 magic is looked for first
parse_pvr_MagicFirst(data, tool, run) ==
    IF Len(data) < 52
    THEN PvrRaise("none", PvrError("ToolError", "PVR data too short", Len(data)), <<>>, <<>>)
    ELSE IF ReadU32(data, 0) = _PVR3_MAGIC THEN _parse_v3(data, tool, run)
    ELSE IF ReadU32(data, 44) = _PVR2_TAG THEN _parse_v2(data, tool, run)
    ELSE PvrRaise("none",
             PvrError("ToolError", "Unknown PVR format",
                      <<ReadU32(data, 44), ReadU32(data, 0)>>),
             <<>>, <<>>)

\* parse_pvr
parse_pvr(data, tool, run) ==
    IF Len(data) < 52
    THEN PvrRaise("none", PvrError("ToolError", "PVR data too short", Len(data)), <<>>, <<>>)
    ELSE IF ReadU32(data, 44) = _PVR2_TAG THEN _parse_v2(data, tool, run)
    ELSE IF ReadU32(data, 0) = _PVR3_MAGIC THEN _parse_v3(data, tool, run)
    ELSE PvrRaise("none",
             PvrError("ToolError", "Unknown PVR format",
                      <<ReadU32(data, 44), ReadU32(data, 0)>>),
             <<>>, <<>>)

Described(status, version, width, height, more) ==
    [status |-> status, version |-> version, width |-> width, height |-> height,
     more |-> more]

\* describe_pvr; version is "2", "3" or "unknown"; the first unpack_from
\* raises struct.error when the buffer ends before offset 48
describe_pvr(data) ==
    IF ~CanRead(data, 44, 4)
    THEN Described("struct.error", "", 0, 0, <<>>)
    ELSE IF ReadU32(data, 44) = _PVR2_TAG
    THEN LET fmt == ReadU32(data, 16) % 256
         IN  Described("ok", "2", ReadU32(data, 8), ReadU32(data, 4),
                       <<fmt, ReadU32(data, 24)>>)
    ELSE IF ReadU32(data, 0) = _PVR3_MAGIC
    THEN Described("ok", "3", ReadU32(data, 28), ReadU32(data, 24),
                   <<ReadU32(data, 8), ReadU32(data, 12)>>)
    ELSE Described("ok", "unknown", 0, 0, <<>>)

(***************************************************************************)
(* Inputs of parse_pvr and describe_pvr.                                   *)
(***************************************************************************)
\* struct.pack("<I", v)
LE32(v) == <<v % 256, (v \div 256) % 256, (v \div 65536) % 256, (v \div 16777216) % 256>>

RECURSIVE Words(_)
\* struct.pack("<" + "I" * len(ws), *ws)
Words(ws) == IF ws = <<>> THEN <<>> ELSE LE32(Head(ws)) \o Words(Tail(ws))

\* a PVRv2 header: header length, height, width, mipmaps, flags, data
\* length, bpp, four masks, the tag, surfaces
V2Header(header_len, width, height, flags) ==
    Words(<<header_len, height, width, 0, flags, 0, 32, 0, 0, 0, 0, _PVR2_TAG, 1>>)

\* a PVRv3 header: version, flags, pixel format (low, high), colour space,
\* channel type, height, width, depth, surfaces, faces, mip levels,
\* metadata size
V3Header(pf_lo, pf_hi, width, height, mip_levels, meta_size) ==
    Words(<<_PVR3_MAGIC, 0, pf_lo, pf_hi, 0, 0, height, width, 1, 1, 1, mip_levels,
            meta_size>>)

\* n bytes, byte i being i * step mod 256
Ramp(n, step) == [i \in 1..n |-> (i * step) % 256]

RECURSIVE ChannelWord(_)
\* the low pixel-format word that names the channels, first channel lowest
ChannelWord(codes) ==
    IF codes = <<>> THEN 0 ELSE Head(codes) + 256 * ChannelWord(Tail(codes))

\* every ordering of the characters of s
Orderings(s) ==
    { [i \in 1..Len(s) |-> s[p[i]]] :
        p \in { q \in [1..Len(s) -> 1..Len(s)] :
                  \A i, j \in 1..Len(s) : i # j => q[i] # q[j] } }

\* "rgba" and "rgb" in every order, "la", "l", the two-channel "rg", and 0
\* for the GPU formats
V3Words ==
    { ChannelWord(o) : o \in Orderings(<<114, 103, 98, 97>>) \cup Orderings(<<114, 103, 98>>) }
        \cup { ChannelWord(<<108, 97>>), ChannelWord(<<108>>), ChannelWord(<<114, 103>>), 0 }

\* 8 bits in every channel; 5 bits in the second; 4 bits in every channel
V3Depths == { 134744072, 134743304, 67372036 }

Sides == 1..MaxPvrSide

\* the pixel bytes that follow a header: enough for any format, one byte,
\* or none
PixelBytes(w, h) == { Ramp(w * h * 4, 85), Ramp(w * h * 4, 255), Ramp(1, 85), <<>> }

V2Buffers ==
    UNION { { V2Header(hl, w, h, flags) \o px : px \in PixelBytes(w, h) } :
            hl \in {52, _PVR3_MAGIC}, w \in Sides, h \in Sides,
            flags \in UNION { {fmt, fmt + 768} : fmt \in (DOMAIN _PVR2_FMT) \cup {0, 28} } }

V3Buffers ==
    UNION { { V3Header(lo, hi, w, h, 1, meta) \o Ramp(meta, 1) \o px :
                px \in PixelBytes(w, h) } :
            lo \in V3Words, hi \in V3Depths, w \in Sides, h \in Sides, meta \in {0, 4} }
        \cup { V3Header(lo, 134744072, 1, 1, _PVR2_TAG, 0) \o Ramp(4, 85) : lo \in V3Words }

\* 52 bytes or more that carry neither signature
OtherBuffers == { Ramp(52, 0), Ramp(60, 0), Ramp(52, 1), Ramp(64, 2) }

ShortLens == {0, 1, 4, 32, 44, 47, 48, 51}

\* the start of a buffer of each kind
ShortBuffers ==
    { SliceTo(b, n) :
        b \in { Ramp(52, 0), Ramp(52, 1), V2Header(52, 1, 1, 18),
                V3Header(ChannelWord(<<114, 103, 98, 97>>), 134744072, 1, 1, 1, 0) },
        n \in ShortLens }

\* what the PVRTexToolCLI process does when it is started
ToolRuns ==
    { [exit |-> 0, stderr |-> <<>>, png |-> TRUE],
      [exit |-> 0, stderr |-> <<>>, png |-> FALSE],
      [exit |-> 1, stderr |-> <<"b", "a", "d">>, png |-> FALSE],
      [exit |-> 2, stderr |-> <<>>, png |-> TRUE] }

NoRun == [exit |-> 0, stderr |-> <<>>, png |-> TRUE]

\* the buffers parse_pvr hands to _pvrtc_fallback
IsBlockCompressed(data) ==
    /\ Len(data) >= 52
    /\ IF SubSeq(data, 45, 48) = <<80, 86, 82, 33>>
       THEN data[17] \in {24, 25}
       ELSE /\ SubSeq(data, 1, 4) = <<80, 86, 82, 3>>
            /\ SubSeq(data, 9, 12) = <<0, 0, 0, 0>>

PvrInput(data, tool, run) == [data |-> data, tool |-> tool, run |-> run]

\* every buffer without a tool; the GPU formats also with a tool
PvrInputs ==
    { PvrInput(b, "", NoRun) :
        b \in V2Buffers \cup V3Buffers \cup OtherBuffers \cup ShortBuffers }
        \cup { PvrInput(b, "PVRTexToolCLI", run) :
                 b \in { d \in V2Buffers \cup V3Buffers : IsBlockCompressed(d) },
                 run \in ToolRuns }

InitPvr ==
    /\ pvrPc = "start"
    /\ \E inp \in PvrInputs :
          /\ pvrData = inp.data
          /\ pvrTool = inp.tool
          /\ pvrRun = inp.run
    /\ pvrOut = None /\ pvrInfo = None /\ pvrTmp = <<>> /\ pvrProcs = <<>>
    /\ IdleExcept("pvr")

\* one call of parse_pvr
ParsePvr ==
    /\ pvrPc = "start"
    /\ pvrOut' = parse_pvr(pvrData, pvrTool, pvrRun)
    /\ pvrTmp' = pvrTmp \o pvrOut'.wrote
    /\ pvrProcs' = pvrProcs \o pvrOut'.ran
    /\ pvrPc' = "parsed"
    /\ UNCHANGED <<notPvr, pvrData, pvrTool, pvrRun, pvrInfo>>

\* one call of describe_pvr
DescribePvr ==
    /\ pvrPc = "start"
    /\ pvrInfo' = describe_pvr(pvrData)
    /\ pvrPc' = "described"
    /\ UNCHANGED <<notPvr, pvrData, pvrTool, pvrRun, pvrOut, pvrTmp, pvrProcs>>

NextPvr == ParsePvr \/ DescribePvr

SpecPvr == InitPvr /\ [][NextPvr]_vars

(***************************************************************************)
(* Properties of parse_pvr and describe_pvr.                               *)
(***************************************************************************)
\* the bytes 'PVR!' stand at offset 44
HasV2Tag(data) == Len(data) >= 48 /\ SubSeq(data, 45, 48) = <<80, 86, 82, 33>>

\* the bytes 'PVR\x03' stand at offset 0
HasV3Magic(data) == Len(data) >= 4 /\ SubSeq(data, 1, 4) = <<80, 86, 82, 3>>

\* C14: parse_pvr fails with the format error (ToolError) for a buffer of
\* fewer than 52 bytes; otherwise a buffer with the V2 tag at offset 44 is
\* parsed as V2, also when it carries the V3 magic; without the tag a
\* buffer with the V3 magic at offset 0 is parsed as V3; with neither it
\* fails with the format error.
C14_DetectionOrder ==
    pvrPc = "parsed" =>
        IF Len(pvrData) < 52
        THEN /\ pvrOut.status = "ToolError"
             /\ pvrOut.err.what = "PVR data too short"
             /\ pvrOut.parser = "none"
        ELSE IF HasV2Tag(pvrData)
        THEN /\ pvrOut.parser = "v2"
             /\ (pvrOut.status = "ok" /\ pvrProcs = <<>>) =>
                    /\ pvrOut.image.width = pvrData[9]
                    /\ pvrOut.image.height = pvrData[5]
        ELSE IF HasV3Magic(pvrData)
        THEN /\ pvrOut.parser = "v3"
             /\ (pvrOut.status = "ok" /\ pvrProcs = <<>>) =>
                    /\ pvrOut.image.width = pvrData[29]
                    /\ pvrOut.image.height = pvrData[25]
        ELSE /\ pvrOut.status = "ToolError"
             /\ pvrOut.err.what = "Unknown PVR format"
             /\ pvrOut.parser = "none"

\* a buffer with both signatures that was decoded
C14_Witness ==
    /\ pvrPc = "parsed"
    /\ HasV2Tag(pvrData) /\ HasV3Magic(pvrData)
    /\ pvrOut.status = "ok"
    /\ pvrOut.parser = "v2"
    /\ pvrOut.image.width # pvrOut.image.height

\* C15: describe_pvr never raises: a buffer of any length with neither
\* signature gives the "unknown" marker, a buffer with a signature gives
\* its version, width and height as the header holds them.
C15_DescribeNeverRaises ==
    pvrPc = "described" =>
        /\ pvrInfo.status = "ok"
        /\ IF HasV2Tag(pvrData)
           THEN /\ pvrInfo.version = "2"
                /\ pvrInfo.width = pvrData[9] /\ pvrInfo.height = pvrData[5]
           ELSE IF HasV3Magic(pvrData)
           THEN /\ pvrInfo.version = "3"
                /\ pvrInfo.width = pvrData[29] /\ pvrInfo.height = pvrData[25]
           ELSE pvrInfo.version = "unknown"

\* C16: a GPU-block-compressed buffer (V2 format 0x18 or 0x19, V3 low word
\* 0) without a tool fails with the format error (ToolError) that names the
\* encoding, and no temporary file is written and no process started; with
\* a tool the whole buffer is written for the tool and one process is run
\* on it, and a non-zero exit gives the error that carries the tool's
\* stderr, and no image.
C16_BlockCompressedFallback ==
    (pvrPc = "parsed" /\ IsBlockCompressed(pvrData)) =>
        IF pvrTool = ""
        THEN /\ pvrOut.status = "ToolError"
             /\ pvrOut.err.what = "PVRTC-compressed texture cannot be decoded in pure Python"
             /\ pvrOut.err.detail.label.value =
                    (IF HasV2Tag(pvrData) THEN pvrData[17]
                     ELSE pvrData[13] + 256 * pvrData[14] + 65536 * pvrData[15]
                              + 16777216 * pvrData[16])
             /\ pvrOut.err.detail.label.container =
                    (IF HasV2Tag(pvrData) THEN "PVRv2" ELSE "PVRv3")
             /\ pvrTmp = <<>>
             /\ pvrProcs = <<>>
        ELSE /\ pvrTmp = <<pvrData>>
             /\ Len(pvrProcs) = 1
             /\ pvrProcs[1].tool = pvrTool
             /\ pvrProcs[1].input = pvrData
             /\ pvrRun.exit # 0 =>
                    /\ pvrOut.status = "ToolError"
                    /\ pvrOut.err.what = "PVRTexToolCLI failed"
                    /\ pvrOut.err.detail.stderr = pvrRun.stderr
                    /\ pvrOut.image = None

\* the tool was run on a V3 buffer with its pixel data and exited non-zero
C16_Witness ==
    /\ pvrPc = "parsed"
    /\ IsBlockCompressed(pvrData) /\ HasV3Magic(pvrData)
    /\ Len(pvrData) > 52
    /\ pvrTool # ""
    /\ pvrRun.exit # 0 /\ pvrRun.stderr # <<>>
    /\ pvrOut.status = "ToolError"
    /\ pvrProcs # <<>>

(***************************************************************************)
(* logic.py: _load_texture, and the steps of extract_atlas that read the   *)
(* texture and the descriptor.                                             *)
(***************************************************************************)
\* Path.suffix: the file name from its last dot on
Suffix(path) ==
    IF LastDot(path) > 1 THEN SubSeq(path, LastDot(path), Len(path)) ELSE <<>>

\* a file that holds the given bytes
Bytes(data) == [kind |-> "bytes", data |-> data]

\* the first bytes of every PNG file
PngSignature == <<137, 80, 78, 71, 13, 10, 26, 10>>

\* path.read_bytes(): a PNG file starts with the PNG signature and goes on
\* with its chunks
read_bytes(file) == IF file.kind = "png" THEN PngSignature \o Ramp(52, 1) ELSE file.data

\* what _load_texture did: the image or the exception, whether the file was
\* opened as an image, whether decompress_ccz was called, and the bytes
\* parse_pvr was called with (None when it was not called)
TextureLoad(status, e, img, direct, decompressed, decoder_input) ==
    [status |-> status, err |-> e, image |-> img, direct |-> direct,
     decompressed |-> decompressed, decoder_input |-> decoder_input]

\* _load_texture without a PVRTexToolCLI (pvrtextool is None and
\* PVRTEXTOOL is not set)
_load_texture(file, path) ==
    IF LowerStr(Suffix(path)) = DotPng
    THEN IF file.kind = "png"
         THEN TextureLoad("ok", None, file.image, TRUE, FALSE, None)
         ELSE TextureLoad("ToolError", ToolError("Failed to open texture image", path),
                          None, TRUE, FALSE, None)
    ELSE LET raw == read_bytes(file)
             z == IF is_ccz(raw) THEN decompress_ccz(raw)
                  ELSE [status |-> "ok", cause |-> "", value |-> raw]
         IN  IF z.status # "ok"
             THEN TextureLoad(z.status,
                              [type |-> z.status, what |-> z.cause, detail |-> <<>>],
                              None, FALSE, is_ccz(raw), None)
             ELSE LET d == parse_pvr(z.value, "", NoRun)
                  IN  TextureLoad(d.status, d.err, d.image, FALSE, is_ccz(raw), z.value)

\* atlas_image = _load_texture(texture_path, pvrtextool=tool)
LoadTexture ==
    /\ pc = "load"
    /\ LET r == _load_texture(texFiles[texture_path], texture_path)
       IN  /\ texLoad' = r
           /\ IF r.status = "ok"
              THEN /\ atlas_image' = r.image
                   /\ pc' = StepAfter("load")
                   /\ err' = err
              ELSE /\ atlas_image' = atlas_image
                   /\ pc' = "failed"
                   /\ err' = r.err
    /\ UNCHANGED <<notExtract, given, outDirExists, fs, texture_path, frames, total,
                   idx, images, outcome, events, result, calls, writes>>

\* frames = load_plist(plist_path); total = len(frames); images = []
LoadPlist ==
    /\ pc = "parse"
    /\ LET r == load_plist(plistFile)
       IN  IF r.status = "ok"
           THEN /\ frames' = r.frames
                /\ total' = Len(r.frames)
                /\ pc' = StepAfter("parse")
                /\ err' = err
           ELSE /\ frames' = frames
                /\ total' = total
                /\ pc' = "failed"
                /\ err' = [type |-> r.status, what |-> r.what, detail |-> <<>>]
    /\ images' = <<>>
    /\ idx' = 0
    /\ UNCHANGED <<notExtract, given, outDirExists, fs, texture_path, atlas_image,
                   texLoad, outcome, events, result, calls, writes>>

\* extract_atlas is called once more with skip_existing=True, on the same
\* descriptor, texture and output directory
Rerun ==
    /\ pc = "done"
    /\ callNo = 1
    /\ callNo' = 2
    /\ skip_existing' = TRUE
    /\ fs0' = fs
    /\ pc' = "start"
    /\ texture_path' = None /\ atlas_image' = None /\ texLoad' = None
    /\ frames' = <<>> /\ total' = 0 /\ idx' = 0 /\ images' = <<>> /\ outcome' = <<>>
    /\ events' = <<>> /\ result' = None /\ err' = None /\ calls' = <<>>
    /\ writes' = <<>>
    /\ UNCHANGED <<notExtract, texDir, texFiles, plistFile, descriptor, suffix, has_bus,
                   handlers, faults, outDirExists, fs>>

(***************************************************************************)
(* The files extract_atlas reads.                                          *)
(***************************************************************************)
\* the texture as a raw RGBA8888 V2 payload of the size of AtlasImage: the
\* pixel at row-major position i holds the bytes 4i+1 .. 4i+4
TexturePvr == V2Header(52, AtlasW, AtlasH, 18) \o Ramp(AtlasW * AtlasH * 4, 1)

\* a texture file of each kind under the name of its kind
DefaultContent(name) ==
    IF EndsWith(name, DotPvrCcz) THEN Bytes(Wrap(TexturePvr, 0))
    ELSE IF EndsWith(name, DotPvr) THEN Bytes(TexturePvr)
    ELSE PngFile(AtlasImage)

DefaultFiles(dir) == [name \in dir |-> DefaultContent(name)]

\* the rect string "{{x,y},{w,h}}" of a frame
RectText(f) == Nested(<<Str(f.x), Str(f.y), Str(f.w), Str(f.h)>>)

\* the .plist that stores the frames d
PlistOf(d) ==
    PlistFile(TRUE, "frames" :> [i \in 1..Len(d) |->
        Entry(d[i].name, ("frame" :> RectText(d[i])) @@ ("rotated" :> d[i].rotated))])

\* the call with every file it reads spelled out
FullInput(inp) ==
    [descriptor |-> inp.descriptor, suffix |-> inp.suffix,
     skip_existing |-> inp.skip_existing, has_bus |-> inp.has_bus, pre |-> inp.pre,
     outDirExists |-> inp.outDirExists, handlers |-> inp.handlers,
     files |-> DefaultFiles(inp.texDir), plist |-> PlistOf(inp.descriptor),
     faults |-> <<>>]

OneFrame == <<Frame(<<"h">>, 0, 0, 1, 1, FALSE)>>

\* the saves the file system refuses: none, or the save of one entry, at
\* open or while writing
FaultChoices(n) ==
    { <<>> } \cup { k :> kind : k \in 1..n, kind \in {"open", "write"} }

\* two names with the same output path, a third name, and a frame of
\* negative width
FaultFrames ==
    { Frame(<<"h">>, 0, 0, 1, 1, FALSE),
      Frame(<<"h", ".", "p", "n", "g">>, 0, 0, 2, 1, TRUE),
      Frame(<<"t">>, 0, 1, 1, 1, FALSE),
      Frame(<<"c">>, 0, 0, 0 - 1, 1, FALSE) }

\* up to two entries, one save that fails
FaultInputs ==
    UNION { { [FullInput(Input(d, <<>>, skip, TRUE, pre, OnlyPng, TRUE))
                  EXCEPT !.faults = f] :
                skip \in BOOLEAN, pre \in SUBSET OutNames(d, <<>>),
                f \in FaultChoices(Len(d)) } :
            d \in Descriptors(FaultFrames, 2) }

\* what a texture file can hold: an image, the raw texture, the texture in
\* a container of each method, a container of an unknown method, a
\* container cut short, a container around bytes that are no texture,
\* bytes that are neither, nothing
TextureContents ==
    { PngFile(AtlasImage), Bytes(TexturePvr) }
        \cup { Bytes(Wrap(TexturePvr, m)) : m \in 0..3 }
        \cup { Bytes(Container(_MAGIC, 7, 2, 0, 0, TexturePvr)),
               Bytes(SubSeq(Wrap(TexturePvr, 3), 1, 12)),
               Bytes(_MAGIC),
               Bytes(Wrap(Ramp(60, 1), 3)),
               Bytes(Ramp(60, 1)),
               Bytes(<<>>) }

\* one texture file, of any content under any of the three names
LoadInputs ==
    { [FullInput(Input(OneFrame, <<>>, FALSE, TRUE, {}, {name}, FALSE))
          EXCEPT !.files = name :> content] :
        name \in Candidates, content \in TextureContents }

\* descriptors that cannot be loaded: no property list, a rect of two
\* numbers, a rect with a token that is no number
BadPlistFiles ==
    { PlistFile(FALSE, EmptyDict),
      PlistFile(TRUE, "frames" :> <<Entry(<<"h">>, "frame" :> Flat(<<<<"1">>, <<"2">>>>))>>),
      PlistFile(TRUE, "frames" :> <<Entry(<<"h">>,
                    "frame" :> Nested(<<<<"-">>, <<"0">>, <<"1">>, <<"1">>>>))>>) }

\* no texture, a texture that decodes, textures that do not
TextureDirs ==
    { <<>>, (PlistStem \o DotPng) :> PngFile(AtlasImage),
      (PlistStem \o DotPng) :> Bytes(Ramp(60, 1)),
      (PlistStem \o DotPvr) :> Bytes(Ramp(60, 1)),
      (PlistStem \o DotPvrCcz) :> Bytes(_MAGIC) }

\* every combination of a texture directory and a descriptor, good or bad
OrderInputs ==
    { [FullInput(Input(<<>>, <<>>, FALSE, TRUE, {}, {}, dx))
          EXCEPT !.files = files, !.plist = plist] :
        dx \in BOOLEAN, files \in TextureDirs, plist \in BadPlistFiles }
    \cup { [FullInput(Input(OneFrame, <<>>, FALSE, TRUE, {}, {}, dx))
              EXCEPT !.files = files] :
             dx \in BOOLEAN, files \in TextureDirs }

\* one entry, placed anywhere, on a texture decoded from a raw payload
PayloadInputs ==
    { FullInput(Input(<<f>>, <<>>, FALSE, TRUE, {}, {PlistStem \o sfx}, FALSE)) :
        f \in AnyFrames, sfx \in {DotPvr} }

Inputs ==
    { FullInput(inp) :
        inp \in FileInputs \cup OptionInputs \cup GeomInputs \cup TextureInputs \cup BusInputs }
        \cup FaultInputs \cup LoadInputs \cup OrderInputs \cup PayloadInputs

\* the state in which extract_atlas is called with the input inp
Called(inp) ==
    /\ descriptor = inp.descriptor
    /\ suffix = inp.suffix
    /\ skip_existing = inp.skip_existing
    /\ has_bus = inp.has_bus
    /\ texDir = DOMAIN inp.files
    /\ texFiles = inp.files
    /\ plistFile = inp.plist
    /\ faults = inp.faults
    /\ outDirExists = (inp.outDirExists \/ inp.pre # {})
    /\ fs = [p \in inp.pre |-> PreExisting]
    /\ fs0 = [p \in inp.pre |-> PreExisting]
    /\ handlers = inp.handlers
    /\ pc = "start"
    /\ callNo = 1
    /\ texture_path = None /\ atlas_image = None /\ texLoad = None
    /\ frames = <<>> /\ total = 0 /\ idx = 0 /\ images = <<>> /\ outcome = <<>>
    /\ events = <<>> /\ result = None /\ err = None /\ calls = <<>> /\ writes = <<>>
    /\ IdleExcept("extract")

Init == \E inp \in Inputs : Called(inp)

Next ==
    \/ Mkdir
    \/ FindTexture
    \/ LoadTexture
    \/ LoadPlist
    \/ SkipEntry
    \/ ExtractEntry
    \/ FailEntry
    \/ Complete

Spec == Init /\ [][Next]_vars

\* up to two entries of two kinds of sprite, with or without a bus, files
\* that are there before the first call, and a first call that may fail
RerunFrames ==
    { Frame(<<"h">>, 0, 0, 1, 1, FALSE),
      Frame(<<"h", ".", "p", "n", "g">>, 0, 0, 2, 1, TRUE),
      Frame(<<"t">>, 0, 1, 1, 1, FALSE) }

RerunInputs ==
    UNION { UNION { { [FullInput(Input(d, sfx, skip, bus, pre, OnlyPng, TRUE))
                          EXCEPT !.faults = f] :
                        skip \in BOOLEAN, pre \in SUBSET OutNames(d, sfx),
                        f \in IF sfx = <<>> /\ bus THEN FaultChoices(Len(d)) ELSE { <<>> } } :
                    sfx \in Suffixes, bus \in BOOLEAN } :
            d \in Descriptors(RerunFrames, 2) }

InitRerun == \E inp \in RerunInputs : Called(inp)

NextRerun ==
    \/ Mkdir
    \/ FindTexture
    \/ LoadTexture
    \/ LoadPlist
    \/ SkipEntry
    \/ ExtractEntry
    \/ FailEntry
    \/ Complete
    \/ Rerun

SpecRerun == InitRerun /\ [][NextRerun]_vars

(***************************************************************************)
(* Properties of the sprites extract_atlas produces.                       *)
(***************************************************************************)
\* the texture pixels inside the region with the given left, top, width and
\* height (0-based, top-left origin)
RegionPixels(left, top, width, height) ==
    { atlas_image.px[r][c] :
        r \in ((top + 1)..(top + height)) \cap (1..AtlasH),
        c \in ((left + 1)..(left + width)) \cap (1..AtlasW) }

\* the texture pixels an image shows; the transparent pixel is padding
ShownPixels(img) ==
    { img.px[r][c] : r \in 1..img.height, c \in 1..img.width } \ {Transparent}

\* the entry finished last was written, and its file is in fs
LastWritten == pc \in {"loop", "done"} /\ idx >= 1 /\ outcome[idx] = "written"

LastFrame == descriptor[idx]

LastSprite == fs[OutName(LastFrame.name, suffix)].image

RECURSIVE WrittenEntries(_)
\* the indexes of the written entries among the first k, in entry order
WrittenEntries(k) ==
    IF k = 0 THEN <<>>
    ELSE IF outcome[k] = "written" THEN Append(WrittenEntries(k - 1), k)
    ELSE WrittenEntries(k - 1)

plist_metadata(file) ==
    IF ~file.readable
    THEN [status |-> "ToolError", what |-> "Failed to read plist file", value |-> EmptyDict]
    ELSE [status |-> "ok", what |-> "",
          value |-> IF "metadata" \in DOMAIN file.data THEN file.data["metadata"]
                    ELSE EmptyDict]

\* mutant: the ToolError of _find_texture is not caught
TextureOrRaise(found) ==
    IF found.ok THEN [raised |-> FALSE, texture |-> [none |-> FALSE, path |-> found.path]]
    ELSE [raised |-> TRUE, texture |-> None]

\* try: texture_path = _find_texture(plist_path); except ToolError: None
TextureOrNone(found) ==
    IF found.ok THEN [raised |-> FALSE, texture |-> [none |-> FALSE, path |-> found.path]]
    ELSE [raised |-> FALSE, texture |-> None]

ProbeRaise(type, what) ==
    [status |-> type, what |-> what, texture |-> None, frame_count |-> 0,
     frame_names |-> <<>>, metadata |-> EmptyDict]

\* probe_atlas: files are the names next to the descriptor, file the
\* descriptor
probe_atlas(files, file) ==
    LET found == _find_texture(files, PlistStem)
        tex == TextureOrNone(found)
        loaded == load_plist(file)
        meta == plist_metadata(file)
    IN  IF tex.raised THEN ProbeRaise("ToolError", found.err.what)
        ELSE IF loaded.status # "ok" THEN ProbeRaise(loaded.status, loaded.what)
        ELSE IF meta.status # "ok" THEN ProbeRaise(meta.status, meta.what)
        ELSE [status |-> "ok", what |-> "", texture |-> tex.texture,
              frame_count |-> Len(loaded.frames),
              frame_names |-> [i \in 1..Len(loaded.frames) |-> loaded.frames[i].name],
              metadata |-> meta.value]

(***************************************************************************)
(* Inputs of probe_atlas.                                                  *)
(***************************************************************************)
\* entries that parse
GoodInfos ==
    { "frame" :> Flat(<<<<"0">>, <<"2">>, <<"1">>, <<"3">>>>),
      ("textureRect" :> Nested(<<<<"1">>, <<"0">>, <<"2">>, <<"1">>>>))
          @@ ("rotated" :> TRUE) }

\* the "metadata" section of a .plist
Metadatas ==
    { EmptyDict,
      ("format" :> 2) @@ ("textureFileName" :> <<"a", ".", "p", "n", "g">>) }

\* the entries of a .plist: up to MaxEntries distinct names, each with one
\* of the given infos
EntryLists(infos) ==
    UNION { { [i \in 1..k |-> Entry(ns[i], is[i])] :
                ns \in { n \in [1..k -> NamePool] :
                           \A i, j \in 1..k : i # j => n[i] # n[j] },
                is \in [1..k -> infos] } :
            k \in 0..MaxEntries }

\* descriptors that parse, with and without a "metadata" section
GoodPlists ==
    { PlistFile(TRUE, "frames" :> es) : es \in EntryLists(GoodInfos) }
        \cup { PlistFile(TRUE, ("frames" :> es) @@ ("metadata" :> md)) :
                 es \in EntryLists(GoodInfos), md \in Metadatas }
        \cup { PlistFile(TRUE, EmptyDict) }

\* entries that do not parse: no rect, a rect of two numbers, an offset
\* with a malformed token
BadInfos ==
    { EmptyDict,
      "frame" :> Flat(<<<<"1">>, <<"2">>>>),
      ("frame" :> Flat(<<<<"0">>, <<"2">>, <<"1">>, <<"3">>>>))
          @@ ("offset" :> Flat(<<<<"-", "-">>, <<"1">>>>)) }

\* a file that is no property list, and descriptors with an entry that
\* does not parse
BadPlists ==
    { PlistFile(FALSE, EmptyDict) }
        \cup { PlistFile(TRUE, "frames" :> <<Entry(<<"h">>, info)>>) : info \in BadInfos }

\* the directories that exist, and the files next to the descriptor
FileSystem(dirs, files) == [dirs |-> dirs, files |-> files]

InitProbe ==
    /\ prPc = "start"
    /\ prFile \in GoodPlists \cup BadPlists
    /\ \E files \in SUBSET (Candidates \cup { <<"b">> \o DotPng }) :
          /\ prFs = FileSystem({<<"i", "n">>}, files \cup { PlistStem \o <<".", "p", "l", "i", "s", "t">> })
          /\ prFs0 = prFs
    /\ prOut = None
    /\ IdleExcept("probe")

\* one call of probe_atlas; it only reads
Probe ==
    /\ prPc = "start"
    /\ prOut' = probe_atlas(prFs.files, prFile)
    /\ prPc' = "done"
    /\ UNCHANGED <<notProbe, prFile, prFs, prFs0>>

NextProbe == Probe

SpecProbe == InitProbe /\ [][NextProbe]_vars

(***************************************************************************)
(* Properties of probe_atlas.                                              *)
(***************************************************************************)
\* the entries and the metadata section of the probed descriptor
ProbedEntries == IF "frames" \in DOMAIN prFile.data THEN prFile.data["frames"] ELSE <<>>

ProbedMetadata ==
    IF "metadata" \in DOMAIN prFile.data THEN prFile.data["metadata"] ELSE EmptyDict

\* C19: probe_atlas leaves every file and directory as it was; for a
\* descriptor that parses it returns, whether or not a texture exists, the
\* first existing candidate (<stem>.pvr.ccz, <stem>.pvr, <stem>.png) or none,
\* the number of entries, their names in descriptor order and the metadata
\* section; when it raises, it is never for the missing texture.
C19_ProbeOnlyReads ==
    /\ prFs = prFs0
    /\ (prPc = "done" /\ prFile \in GoodPlists) =>
          /\ prOut.status = "ok"
          /\ prOut.texture =
                (IF (PlistStem \o DotPvrCcz) \in prFs.files
                 THEN [none |-> FALSE, path |-> PlistStem \o DotPvrCcz]
                 ELSE IF (PlistStem \o DotPvr) \in prFs.files
                 THEN [none |-> FALSE, path |-> PlistStem \o DotPvr]
                 ELSE IF (PlistStem \o DotPng) \in prFs.files
                 THEN [none |-> FALSE, path |-> PlistStem \o DotPng]
                 ELSE None)
          /\ prOut.frame_count = Len(ProbedEntries)
          /\ prOut.frame_names = [i \in 1..Len(ProbedEntries) |-> ProbedEntries[i].name]
          /\ prOut.metadata = ProbedMetadata
    /\ (prPc = "done" /\ prFile \in BadPlists) =>
          /\ prOut.status # "ok"
          /\ prOut.what # "No texture found"

\* no candidate texture exists and the descriptor has two entries and a
\* metadata section
C19_Witness ==
    /\ prPc = "done"
    /\ prFs.files \cap Candidates = {}
    /\ prOut.status = "ok"
    /\ prOut.texture = None
    /\ prOut.frame_count = 2
    /\ prOut.frame_names[1] # prOut.frame_names[2]
    /\ prOut.metadata # EmptyDict

(***************************************************************************)
(* Properties of extract_atlas with subscribers on the event bus.          *)
(***************************************************************************)
RECURSIVE ExpectedCalls(_)
\* for each of the first k emit calls, one call of every handler subscribed
\* to its event, in subscription order
ExpectedCalls(k) ==
    IF k = 0 THEN <<>>
    ELSE LET subs == SelectSeq(handlers, LAMBDA h : h.event = events[k].event)
         IN  ExpectedCalls(k - 1)
                 \o [i \in 1..Len(subs) |->
                        [handler |-> subs[i].id, event |-> events[k].event, emit |-> k]]

RECURSIVE WithoutBus(_)
\* the files and the recorded sprites after k entries of an extraction
\* that reports to nobody
WithoutBus(k) ==
    IF k = 0 THEN [fs |-> fs0, images |-> <<>>]
    ELSE LET prev == WithoutBus(k - 1)
             out_name == OutName(descriptor[k].name, suffix)
             sprite == _crop_sprite(atlas_image, descriptor[k])
         IN  IF skip_existing /\ out_name \in DOMAIN prev.fs THEN prev
             ELSE [fs |-> [p \in DOMAIN prev.fs \cup {out_name} |->
                             IF p = out_name THEN [kind |-> "png", image |-> sprite]
                             ELSE prev.fs[p]],
                   images |-> Append(prev.images, ImageData(out_name, sprite))]

\* C20: whatever the subscribers raise, every emit calls all the handlers
\* of its event in subscription order and returns; extract_atlas never
\* fails with what a subscriber raised, and its files and its result are
\* those of the extraction without subscribers.
C20_SubscriberFailureContained ==
    /\ calls = ExpectedCalls(Len(events))
    /\ pc = "failed" => err # HandlerError
    /\ pc \in {"loop", "done"} =>
          /\ fs = WithoutBus(idx).fs
          /\ images = WithoutBus(idx).images
    /\ pc = "done" =>
          /\ idx = N
          /\ result = [images |-> WithoutBus(N).images,
                       count |-> Len(WithoutBus(N).images)]

\* a raising progress handler subscribed before a second progress handler:
\* both were called for both entries and the call returned its result
C20_Witness ==
    /\ pc = "done" /\ N = 2
    /\ Len(handlers) = 2
    /\ handlers[1].raises /\ handlers[1].event = "progress"
    /\ ~handlers[2].raises /\ handlers[2].event = "progress"
    /\ Len(calls) = 4
    /\ calls[1].handler = 1 /\ calls[2].handler = 2
    /\ result.count >= 1

(***************************************************************************)
(* Properties of the V3 parser.                                            *)
(***************************************************************************)
\* the channels the low pixel-format word of a V3 buffer declares
DeclaredChannels(data) == _v3_channels(ReadU32(data, 8))

\* the bit depths the high word gives to the declared channels
DeclaredDepths(data) ==
    [i \in 1..Len(DeclaredChannels(data)) |-> Bits(ReadU32(data, 12), (i - 1) * 8, 8)]

\* the pixel data of a V3 buffer holds every pixel of the image
HasAllPixels(data) ==
    Len(data) >= 52 + ReadU32(data, 48)
                    + ReadU32(data, 24) * ReadU32(data, 28) * Len(DeclaredChannels(data))

\* a V3 buffer (without the V2 tag) that names its channels
IsPlainV3(data) ==
    /\ Len(data) >= 52 /\ ~HasV2Tag(data) /\ HasV3Magic(data)
    /\ ReadU32(data, 8) # 0

IsOrderingOf(order, s) ==
    /\ Len(order) = Len(s)
    /\ { order[i] : i \in 1..Len(order) } = { s[i] : i \in 1..Len(s) }

\* the byte the file stores for the channel labelled ch of pixel (c, r),
\* both counted from 1
StoredByte(data, c, r, ch) ==
    LET order == DeclaredChannels(data)
        n == Len(order)
        i == (r - 1) * ReadU32(data, 28) + (c - 1)
    IN  data[52 + ReadU32(data, 48) + i * n + IndexIn(order, ch)]

\* C23: for every ordering of r, g, b, a (8-bit depths) and every ordering
\* of r, g, b declared in the low pixel-format word of a V3 texture, the
\* decoded image is in canonical order: its red, green, blue and alpha
\* channels hold the bytes the file stored for the channels labelled r, g,
\* b and a.
C23_CanonicalOrder ==
    (/\ pvrPc = "parsed" /\ IsPlainV3(pvrData)
     /\ \/ IsOrderingOf(DeclaredChannels(pvrData), <<114, 103, 98, 97>>)
        \/ IsOrderingOf(DeclaredChannels(pvrData), <<114, 103, 98>>)
     /\ \A i \in DOMAIN DeclaredDepths(pvrData) : DeclaredDepths(pvrData)[i] = 8
     /\ pvrOut.status = "ok") =>
        \A r \in 1..pvrOut.image.height : \A c \in 1..pvrOut.image.width :
            LET p == pvrOut.image.px[r][c]
            IN  /\ p[1] = StoredByte(pvrData, c, r, 114)
                /\ p[2] = StoredByte(pvrData, c, r, 103)
                /\ p[3] = StoredByte(pvrData, c, r, 98)
                /\ p[4] = (IF Len(DeclaredChannels(pvrData)) = 4
                           THEN StoredByte(pvrData, c, r, 97) ELSE 255)

\* C25: a V3 texture whose low pixel-format word is non-zero decodes
\* exactly when every declared channel has a bit depth of 8, and fails
\* with the format error (ToolError) for any other depth of a declared
\* channel; a low word of zero is never decoded in-process but handed to
\* the external tool.
C25_EightBitOnly ==
    (pvrPc = "parsed" /\ Len(pvrData) >= 52 /\ ~HasV2Tag(pvrData) /\ HasV3Magic(pvrData)) =>
        IF ReadU32(pvrData, 8) = 0
        THEN /\ IsBlockCompressed(pvrData)
             /\ IF pvrTool = ""
                THEN pvrOut.status = "ToolError" /\ pvrOut.image = None
                ELSE pvrTmp = <<pvrData>> /\ Len(pvrProcs) = 1
        ELSE IF \A i \in DOMAIN DeclaredDepths(pvrData) : DeclaredDepths(pvrData)[i] = 8
        THEN HasAllPixels(pvrData) =>
                /\ pvrOut.status = "ok"
                /\ pvrOut.image.width = ReadU32(pvrData, 28)
                /\ pvrOut.image.height = ReadU32(pvrData, 24)
                /\ pvrTmp = <<>> /\ pvrProcs = <<>>
        ELSE /\ pvrOut.status = "ToolError"
             /\ pvrOut.err.what = "Unsupported PVRv3 pixel format"
             /\ pvrOut.image = None

(***************************************************************************)
(* The packed 16-bit decoders, applied to every word.                      *)
(***************************************************************************)
\* struct.pack("<H", v)
LE16(v) == <<v % 256, (v \div 256) % 256>>

\* every value a 16-bit word can hold
AllWords == 0..(2 ^ 16 - 1)

InitPix ==
    /\ pxPc = "start"
    /\ pxWord \in AllWords
    /\ pxOut = None
    /\ IdleExcept("pix")

\* the only pixel of the 1x1 image a decoder returned
OnlyPixel(d) == ToRGBA("RGBA", d.image).px[1][1]

\* each decoder is run on the 1x1 texture whose pixel is the word
DecodeWord ==
    /\ pxPc = "start"
    /\ pxOut' = [rgba4444 |-> OnlyPixel(_decode_rgba4444(LE16(pxWord), 1, 1)),
                 rgba5551 |-> OnlyPixel(_decode_rgba5551(LE16(pxWord), 1, 1)),
                 rgb555 |-> OnlyPixel(_decode_rgb555(LE16(pxWord), 1, 1))]
    /\ pxPc' = "decoded"
    /\ UNCHANGED <<notPix, pxWord>>

NextPix == DecodeWord

SpecPix == InitPix /\ [][NextPix]_vars

\* a packed channel: the decoder, the band it fills, and where it sits
Channel(fmt, band, shift, bits) == [fmt |-> fmt, band |-> band, shift |-> shift, bits |-> bits]

PackedChannels ==
    { Channel("rgba4444", 1, 12, 4), Channel("rgba4444", 2, 8, 4),
      Channel("rgba4444", 3, 4, 4), Channel("rgba4444", 4, 0, 4),
      Channel("rgba5551", 1, 11, 5), Channel("rgba5551", 2, 6, 5),
      Channel("rgba5551", 3, 1, 5), Channel("rgba5551", 4, 0, 1),
      Channel("rgb555", 1, 10, 5), Channel("rgb555", 2, 5, 5), Channel("rgb555", 3, 0, 5) }

\* the word with the packed value of channel ch replaced by v
WithChannel(word, ch, v) ==
    word - Bits(word, ch.shift, ch.bits) * 2 ^ ch.shift + v * 2 ^ ch.shift

\* the 8-bit value the decoder of ch gives its band for a word
DecodedChannel(word, ch) ==
    (CASE ch.fmt = "rgba4444" -> Pixel4444(word)
       [] ch.fmt = "rgba5551" -> Pixel5551(word)
       [] ch.fmt = "rgb555" -> Pixel555(word))[ch.band]

\* C24: in the three packed 16-bit decoders every channel is expanded to 8
\* bits over the full range: for every 16-bit word, a channel whose packed
\* value is the minimum decodes to 0, one whose packed value is the maximum
\* decodes to 255, and a larger packed value decodes to a larger value.
C24_FullRange ==
    pxPc = "decoded" =>
        \A ch \in PackedChannels :
            LET v == Bits(pxWord, ch.shift, ch.bits)
                out == pxOut[ch.fmt][ch.band]
            IN  /\ out \in 0..255
                /\ v = 0 => out = 0
                /\ v = 2 ^ ch.bits - 1 => out = 255
                /\ \A u \in 0..(2 ^ ch.bits - 1) :
                       u < v => DecodedChannel(WithChannel(pxWord, ch, u), ch) < out

(***************************************************************************)
(* Properties of an extract_atlas call in which an entry fails.            *)
(***************************************************************************)
\* _crop_sprite or sprite.save raised for the entry after the idx finished
EntryFailed == pc = "failed" /\ idx < total /\ err.type \in {"ValueError", "OSError"}

\* the output path of the entry being processed
CurrentPath == OutName(frames[idx + 1].name, suffix)

\* C21: when the crop or the save of an entry raises, extract_atlas raises
\* that error, returns no result, has processed no later entry, and the
\* output path of the entry holds no file the failed save produced,
\* complete or partial.
C21_FailedEntryLeavesNoFile ==
    EntryFailed =>
        /\ err \in { CropError, SaveError("open"), SaveError("write") }
        /\ result = None
        /\ Len(outcome) = idx
        /\ CurrentPath \in DOMAIN fs => fs[CurrentPath] # Truncated

(***************************************************************************)
(* Properties of entries that share an output path.                        *)
(***************************************************************************)
\* the positions of the entries whose output path is p
EntriesAt(p) == { k \in 1..Len(descriptor) : OutName(descriptor[k].name, suffix) = p }

\* the output paths more than one entry computes
SharedPaths ==
    { p \in OutNames(descriptor, suffix) : Cardinality(EntriesAt(p)) > 1 }

FirstAt(p) == CHOOSE k \in EntriesAt(p) : \A j \in EntriesAt(p) : k <= j
LastAt(p) == CHOOSE k \in EntriesAt(p) : \A j \in EntriesAt(p) : k >= j

\* the PNG file of the sprite of entry k
SpriteFile(k) == PngFile(_crop_sprite(atlas_image, descriptor[k]))

\* C22 as stated: after extraction a path that several entries compute
\* holds the sprite of the last of them, with or without skip_existing.
C22_LastWriteWins ==
    pc = "done" => \A p \in SharedPaths : fs[p] = SpriteFile(LastAt(p))

\* C22: after extraction a path that several entries compute holds the
\* sprite of the last of them when skip_existing is not set; when it is
\* set every entry that finds the file is skipped, and the path holds what
\* it held before the call or else the sprite of the first of them.
C22_LastWriteWinsUnlessSkipping ==
    pc = "done" =>
        \A p \in SharedPaths :
            fs[p] = IF ~skip_existing THEN SpriteFile(LastAt(p))
                    ELSE IF p \in DOMAIN fs0 THEN fs0[p]
                    ELSE SpriteFile(FirstAt(p))

\* two entries with different sprites wrote the same path, one after the
\* other
C22_Witness ==
    /\ pc = "done" /\ ~skip_existing
    /\ \E p \in SharedPaths :
          /\ SpriteFile(FirstAt(p)) # SpriteFile(LastAt(p))
          /\ writes = <<p, p>>

(***************************************************************************)
(* Properties of what a failed extract_atlas call leaves behind.           *)
(***************************************************************************)
\* the entries finished before the failure that wrote the path p
WrittenAt(p) ==
    { j \in 1..idx : outcome[j] = "written" /\ OutName(frames[j].name, suffix) = p }

\* the last of them
LastWrittenAt(p) == CHOOSE j \in WrittenAt(p) : \A i \in WrittenAt(p) : j >= i

\* C29: when the crop or the save of entry k = idx + 1 raises, the bus has
\* been given exactly the progress events 1 .. k-1 and no completed event,
\* and every path written for an entry before k holds the sprite last
\* written to it.
C29_FailureKeepsEarlierWork ==
    EntryFailed =>
        /\ has_bus =>
              /\ Len(events) = idx
              /\ \A i \in 1..idx : events[i].event = "progress" /\ events[i].current = i
        /\ \A p \in OutNames(frames, suffix) :
              WrittenAt(p) # {} =>
                  /\ p \in DOMAIN fs
                  /\ fs[p] = SpriteFile(LastWrittenAt(p))

(***************************************************************************)
(* Properties of _load_texture.                                            *)
(***************************************************************************)
\* the bytes start with the four bytes of the container magic
HasMagic(data) == Len(data) >= 4 /\ \A i \in 1..4 : data[i] = _MAGIC[i]

\* the bytes of the texture file that was found
TextureBytes == read_bytes(texFiles[texture_path])

\* C26: the texture file is opened as an image exactly when its name ends
\* in .png; any other file is given to decompress_ccz exactly when its
\* first four bytes are the magic, whatever its name, and parse_pvr is then
\* called with what decompress_ccz returned, or with the bytes of the file
\* when it was not called.
C26_LoaderDispatch ==
    texLoad # None =>
        /\ texLoad.direct <=> EndsWith(texture_path, DotPng)
        /\ texLoad.direct =>
              /\ ~texLoad.decompressed
              /\ texLoad.decoder_input = None
              /\ texLoad.status = "ok" => texLoad.image = texFiles[texture_path].image
        /\ ~texLoad.direct =>
              /\ texLoad.decompressed <=> HasMagic(TextureBytes)
              /\ IF ~texLoad.decompressed
                 THEN texLoad.decoder_input = TextureBytes
                 ELSE LET z == decompress_ccz(TextureBytes)
                      IN  IF z.status = "ok" THEN texLoad.decoder_input = z.value
                          ELSE /\ texLoad.decoder_input = None
                               /\ texLoad.status = z.status
              /\ texLoad.decoder_input # None =>
                    LET d == parse_pvr(texLoad.decoder_input, "", NoRun)
                    IN  texLoad.status = d.status /\ texLoad.image = d.image

\* a file named .pvr that starts with the magic was decompressed and what
\* came out was decoded
C26_Witness ==
    /\ texLoad # None /\ texLoad.status = "ok" /\ texLoad.image = AtlasImage
    /\ texture_path = PlistStem \o DotPvr
    /\ texLoad.decompressed
    /\ texLoad.decoder_input = TexturePvr
    /\ TextureBytes # TexturePvr

(***************************************************************************)
(* Properties of the order of the steps of extract_atlas.                  *)
(***************************************************************************)
\* no file next to the descriptor has the name of a texture
NoTexture == \A i \in 1..Len(TEXTURE_SUFFIXES) : (PlistStem \o TEXTURE_SUFFIXES[i]) \notin texDir

\* C27: extract_atlas creates the output directory, then looks for the
\* texture, then loads it, then parses the descriptor, then runs the loop;
\* each step is left for the next one or by its own exception, so with no
\* texture the error is that of _find_texture whatever the descriptor
\* holds, and the output directory exists whenever extract_atlas fails.
C27_FixedOrder ==
    [][ /\ pc = "start" => (pc' = "find" /\ outDirExists')
        /\ pc = "find" =>
              /\ texture_path' = None <=> NoTexture
              /\ IF NoTexture
                 THEN pc' = "failed" /\ err' = _find_texture(texDir, PlistStem).err
                 ELSE pc' = "load"
              /\ texLoad' = None /\ frames' = <<>>
        /\ pc = "load" =>
              /\ texLoad' # None
              /\ IF texLoad'.status = "ok" THEN pc' = "parse"
                 ELSE pc' = "failed" /\ err' = texLoad'.err
              /\ frames' = <<>>
        /\ pc = "parse" =>
              /\ texLoad.status = "ok"
              /\ IF load_plist(plistFile).status = "ok" THEN pc' = "loop"
                 ELSE pc' = "failed" /\ err'.type = load_plist(plistFile).status
        /\ pc = "loop" => pc' \in {"loop", "done", "failed"}
        /\ pc' = "failed" => outDirExists'
      ]_vars

\* the texture is missing and the descriptor cannot be parsed either: the
\* call failed with the error of _find_texture, and output_dir is there
C27_Witness ==
    /\ pc = "failed" /\ NoTexture
    /\ load_plist(plistFile).status # "ok"
    /\ err.type = "ToolError" /\ err = _find_texture(texDir, PlistStem).err
    /\ outDirExists /\ fs = <<>>

(***************************************************************************)
(* Properties of the pixels of an unrotated sprite.                        *)
(***************************************************************************)
\* the pixel of an image at column c, row r, both counted from 0
PixelAt(img, c, r) == img.px[r + 1][c + 1]

\* column c, row r is a place of the image
InImage(img, c, r) == c \in 0..(img.width - 1) /\ r \in 0..(img.height - 1)

\* C28: the sprite of an unrotated entry (x, y, w, h) is w wide and h high,
\* and its pixel at column c, row r is the pixel of the decoded texture at
\* column x + c, row texture height - y - 1 - r, wherever the texture has
\* such a pixel; for a texture opened from a .png file and for one decoded
\* from a raw payload alike.
C28_VerticalMirror ==
    (LastWritten /\ ~LastFrame.rotated) =>
        LET f == LastFrame
        IN  /\ LastSprite.width = f.w /\ LastSprite.height = f.h
            /\ \A c \in 0..(f.w - 1), r \in 0..(f.h - 1) :
                  LET tc == f.x + c
                      tr == atlas_image.height - f.y - 1 - r
                  IN  InImage(atlas_image, tc, tr) =>
                          PixelAt(LastSprite, c, r) = PixelAt(atlas_image, tc, tr)

\* a sprite two rows high, inside a texture decoded from a raw payload
C28_Witness ==
    /\ LastWritten /\ ~LastFrame.rotated
    /\ texture_path = PlistStem \o DotPvr /\ ~texLoad.direct
    /\ atlas_image = AtlasImage
    /\ LastFrame.h = 2 /\ LastFrame.w = 1 /\ LastFrame.x = 1 /\ LastFrame.y = 1
    /\ LastSprite.px = << <<PixelAt(atlas_image, 1, AtlasH - 2)>>,
                         <<PixelAt(atlas_image, 1, AtlasH - 3)>> >>

(***************************************************************************)
(* Properties of a second extract_atlas call with skip_existing.           *)
(***************************************************************************)
\* the events of a call that skips every entry of the descriptor
AllSkippedEvents ==
    [i \in 1..(Len(descriptor) + 1) |->
        IF i <= Len(descriptor)
        THEN ProgressEvent(i - 1, Len(descriptor), "Skipped",
                           OutName(descriptor[i].name, suffix))
        ELSE CompletedEvent(<<>>)]

\* C30: a second call with skip_existing=True, after a first call on the
\* same descriptor, texture and output directory that returned, opens no
\* file for writing and leaves every file of output_dir as it was, does
\* not fail, returns count 0 and no images, and gives the bus one progress
\* event per entry and then one completed event.
C30_SecondRunSkipsAll ==
    callNo = 2 =>
        /\ writes = <<>>
        /\ fs = fs0
        /\ pc # "failed"
        /\ pc = "done" =>
              /\ result = [images |-> <<>>, count |-> 0]
              /\ has_bus => events = AllSkippedEvents

\* the second call returned, over two files of which the first call wrote
\* at least one
C30_Witness ==
    /\ callNo = 2 /\ pc = "done" /\ has_bus
    /\ Len(descriptor) = 2 /\ Len(events) = 3
    /\ Cardinality(DOMAIN fs) = 2
    /\ \E p \in DOMAIN fs : fs[p].kind = "png"

====
